---- MODULE Spec2Model ----
(***************************************************************************)
(* TypeormJsonQuery: translation of a JSON query and an authorization      *)
(* (policy) query into a TypeORM query builder.                            *)
(*                                                                         *)
(* JSON values are tagged records [t, v]:                                  *)
(*   undef, null, num (v an integer), str (v a string), bool,              *)
(*   arr (v a sequence of values), obj (v a sequence of entries [k, v] in  *)
(*   insertion order, as Object.entries enumerates them).                  *)
(* Object keys, field names and relation names are strings.                *)
(***************************************************************************)
EXTENDS Integers, Sequences, FiniteSets, TLC

VARIABLES
  queryBuilder,     \* this.queryBuilder: the base query builder
  query,            \* this.query: the stored (caller) query
  authQuery,        \* this.authQuery: the policy query (with its option keys)
  userOptions,      \* the options argument of init()
  options,          \* this.options
  queryParamsCount, \* this.queryParamsCount
  ret               \* the last operation: its arguments and its outcome

vars == <<queryBuilder, query, authQuery, userOptions, options, queryParamsCount, ret>>

----------------------------------------------------------------------------
(* Bounds *)

\* operations are run while the parameter counter stays within MaxCount
MaxCount == 12

----------------------------------------------------------------------------
(* JSON values *)

Undef == [t |-> "undef", v |-> 0]
Null == [t |-> "null", v |-> 0]
Num(n) == [t |-> "num", v |-> n]
Str(s) == [t |-> "str", v |-> s]
Bool(b) == [t |-> "bool", v |-> b]
Arr(s) == [t |-> "arr", v |-> s]
Obj(s) == [t |-> "obj", v |-> s]
Entry(k, x) == [v |-> x, k |-> k]

\* typeof x === 'object' (true of null, arrays and objects)
TypeofObject(x) == x.t \in {"null", "arr", "obj"}

IsArray(x) == x.t = "arr"

\* JS truthiness
Truthy(x) ==
  CASE x.t = "undef" -> FALSE
    [] x.t = "null" -> FALSE
    [] x.t = "num" -> x.v # 0
    [] x.t = "str" -> x.v # ""
    [] x.t = "bool" -> x.v
    [] OTHER -> TRUE

\* a ?? b
Nullish(a, b) == IF a.t \in {"undef", "null"} THEN b ELSE a

\* a || b
OrElse(a, b) == IF Truthy(a) THEN a ELSE b

\* obj.hasOwnProperty(key)
HasOwn(o, key) == o.t = "obj" /\ \E i \in 1..Len(o.v) : o.v[i].k = key

\* obj[key]
Prop(o, key) ==
  IF HasOwn(o, key)
    THEN LET i == CHOOSE j \in 1..Len(o.v) : o.v[j].k = key IN o.v[i].v
    ELSE Undef

----------------------------------------------------------------------------
(* Options *)

OptionNames ==
  <<"defaultPageSize", "maxPageSize", "maxDeepRelation", "maxDeepWhere",
    "defaultRelationPageSize", "defaultRelationMaxPageSize",
    "isDisableAttributes", "isDisableRelations", "isDisableOrderBy",
    "isDisableGroupBy", "isDisablePagination", "isLateralJoins">>

DefaultOptions ==
  [defaultPageSize |-> 25,
   maxPageSize |-> 100,
   maxDeepRelation |-> 4,
   maxDeepWhere |-> 5,
   defaultRelationPageSize |-> 50,
   defaultRelationMaxPageSize |-> 100,
   isDisableAttributes |-> FALSE,
   isDisableRelations |-> FALSE,
   isDisableOrderBy |-> FALSE,
   isDisableGroupBy |-> FALSE,
   isDisablePagination |-> FALSE,
   isLateralJoins |-> TRUE]

OptionKeys == {OptionNames[i] : i \in 1..Len(OptionNames)}

BooleanOptionKeys ==
  {"isDisableAttributes", "isDisableRelations", "isDisableOrderBy", "isDisableGroupBy",
   "isDisablePagination", "isLateralJoins"}

\* an options object: every option key, Undef where the object does not define it
OptionsObject(given) ==
  [name \in OptionKeys |->
     IF name \in DOMAIN given
       THEN (IF name \in BooleanOptionKeys THEN Bool(given[name]) ELSE Num(given[name]))
       ELSE Undef]

\* a faulty variant: the options argument before the policy
DefinedValueUserFirst(auth, user, name) == Nullish(user[name], auth[name])

\* authQuery[name] ?? options[name]
DefinedValue(auth, user, name) == Nullish(auth[name], user[name])

\* the forEach of the constructor over Object.keys(this.options)
RECURSIVE ConstructOptions(_, _, _, _)
ConstructOptions(opts, auth, user, i) ==
  IF i > Len(OptionNames) THEN opts
  ELSE LET name == OptionNames[i]
           definedValue == DefinedValue(auth, user, name)
       IN ConstructOptions(
            IF definedValue.t # "undef" THEN [opts EXCEPT ![name] = definedValue.v] ELSE opts,
            auth, user, i + 1)

----------------------------------------------------------------------------
(* Pagination *)

\* a faulty variant: a page size of 0 is returned as it is
getPageSizeNoZeroRule(opts, size) ==
  LET maxPageSize == opts.maxPageSize
      currentPageSize == Nullish(size, Num(opts.defaultPageSize)).v
  IN IF maxPageSize > 0 /\ currentPageSize > maxPageSize THEN maxPageSize ELSE currentPageSize

\* a faulty variant: a page size above maxPageSize is returned as it is
getPageSizeNoClamp(opts, size) ==
  LET maxPageSize == opts.maxPageSize
      currentPageSize == Nullish(size, Num(opts.defaultPageSize)).v
  IN IF currentPageSize = 0
       THEN (IF maxPageSize = 0 THEN 0 ELSE maxPageSize)
       ELSE currentPageSize

\* getPageSize(size)
getPageSize(opts, size) ==
  LET maxPageSize == opts.maxPageSize
      currentPageSize == Nullish(size, Num(opts.defaultPageSize)).v
  IN IF currentPageSize = 0
       THEN (IF maxPageSize = 0 THEN 0 ELSE maxPageSize)
       ELSE IF maxPageSize > 0 /\ currentPageSize > maxPageSize
              THEN maxPageSize
              ELSE currentPageSize

\* a faulty variant: the page is not reduced by one
getPageZeroBased(opts, page, pageSize) ==
  OrElse(page, Num(1)).v * getPageSize(opts, pageSize)

\* getPage(page, pageSize)
getPage(opts, page, pageSize) ==
  (OrElse(page, Num(1)).v - 1) * getPageSize(opts, pageSize)

----------------------------------------------------------------------------
(* Field alias resolver and parameter names *)

RECURSIVE JoinWith(_, _)
\* segs.join(sep)
JoinWith(segs, sep) ==
  IF Len(segs) = 0 THEN ""
  ELSE IF Len(segs) = 1 THEN segs[1]
  ELSE segs[1] \o sep \o JoinWith(Tail(segs), sep)

RECURSIVE SplitFrom(_, _, _, _)
SplitFrom(s, sep, i, start) ==
  IF i > Len(s) THEN <<SubSeq(s, start, Len(s))>>
  ELSE IF SubSeq(s, i, i) = sep
    THEN <<SubSeq(s, start, i - 1)>> \o SplitFrom(s, sep, i + 1, i + 1)
    ELSE SplitFrom(s, sep, i + 1, start)

\* s.split(sep) for a one-character separator
Split(s, sep) == SplitFrom(s, sep, 1, 1)

\* a faulty variant: the dots before the last one are dropped, not replaced
withFieldAliasDotsDropped(field, alias) ==
  LET segs == Split(field, ".")
  IN IF Len(segs) > 1
       THEN [tbl |-> JoinWith(SubSeq(segs, 1, Len(segs) - 1), ""), col |-> segs[Len(segs)]]
       ELSE [tbl |-> alias, col |-> field]

\* withFieldAlias(field, alias).  The result is the string tbl.col, kept as
\* its two parts: the replace leaves exactly one dot, the last one.
withFieldAlias(field, alias) ==
  LET segs == Split(field, ".")
  IN IF Len(segs) > 1
       THEN [tbl |-> JoinWith(SubSeq(segs, 1, Len(segs) - 1), "_"), col |-> segs[Len(segs)]]
       ELSE [tbl |-> alias, col |-> field]

\* the text of a resolved field
FieldText(f) == f.tbl \o "." \o f.col

\* uniqueParameter(name), evaluated with the counter already incremented to cnt
uniqueParameter(name, cnt) == name \o "_" \o ToString(cnt)

\* JQFieldType
JQFieldType == {"text"}

\* quoteColumn(field) for a resolved field
quoteColumn(f) == "\"" \o f.tbl \o "\".\"" \o f.col \o "\""

----------------------------------------------------------------------------
(* Query builder content *)

\* one element of expressionMap.wheres: type is "and" or "or"
Clause(type, c) == [type |-> type, c |-> c]

\* a condition string with the comparisons it consists of, AND-ed inside the string
Cond(text, cmp) == [k |-> "cond", text |-> text, cmp |-> cmp, w |-> <<>>]

\* new Brackets(...) applied to a builder: the clauses its factory added
Brackets(w) == [k |-> "brackets", text |-> "", cmp |-> <<>>, w |-> w]

Cmp(f, op, p) == [f |-> f, op |-> op, p |-> p]

Binding(n, x, leaf) == [v |-> x, n |-> n, leaf |-> leaf]

\* compilation context: counter, clauses of the current builder, parameters
\* bound so far (in binding order), error thrown ("" when none), deepest
\* level parseCondition was entered at
Ctx(cnt) == [cnt |-> cnt, w |-> <<>>, p |-> <<>>, err |-> "", lvl |-> -1]

Throw(S, msg) == [S EXCEPT !.err = msg]

\* a faulty variant: a string to compare against is written into the condition
AndWhereInterpolated(S, text, cmp, binds) ==
  LET shown == IF binds # <<>> /\ binds[1].v.t = "str" THEN text \o " /" \o binds[1].v.v ELSE text
  IN [S EXCEPT !.w = Append(S.w, Clause("and", Cond(shown, cmp))), !.p = S.p \o binds]

AndWhere(S, text, cmp, binds) ==
  [S EXCEPT !.w = Append(S.w, Clause("and", Cond(text, cmp))), !.p = S.p \o binds]

----------------------------------------------------------------------------
(* Condition applier *)

\* getCastField(field, options): "" stands for the thrown error
getCastField(field, cond) ==
  IF ~TypeofObject(cond) \/ cond.t = "null" \/ ~Truthy(Prop(cond, "type"))
    THEN FieldText(field)
    ELSE IF Prop(cond, "type").t = "str" /\ Prop(cond, "type").v \in JQFieldType
           THEN quoteColumn(field) \o "::" \o Prop(cond, "type").v
           ELSE ""

IsScalar(x) == x.t \in {"num", "str"}

\* a faulty variant: the lower bound is compared first
ApplyComparisonLowerFirst(S, field, castField, parameter, cond) ==
  LET less == IF Prop(cond, "<").t # "undef"
                THEN [value |-> Prop(cond, "<"), operator |-> "<"]
                ELSE [value |-> Prop(cond, "<="), operator |-> "<="]
      greater == IF Prop(cond, ">").t # "undef"
                   THEN [value |-> Prop(cond, ">"), operator |-> ">"]
                   ELSE [value |-> Prop(cond, ">="), operator |-> ">="]
      pair == <<greater, less>>
      idx == <<"0", "1">>
      used == SelectSeq(<<1, 2>>, LAMBDA i : pair[i].value.t # "undef")
  IN IF less.value.t = "undef" /\ greater.value.t = "undef"
       THEN Throw(S, "comparison should have value")
     ELSE IF \E i \in 1..2 : pair[i].value.t \notin {"str", "num", "undef"}
       THEN Throw(S, "comparison invalid value")
     ELSE AndWhere(S,
            IF Len(used) = 2
              THEN castField \o " " \o greater.operator \o " :" \o parameter \o "0 AND "
                     \o castField \o " " \o less.operator \o " :" \o parameter \o "1"
              ELSE castField \o " " \o pair[used[1]].operator \o " :" \o parameter \o idx[used[1]],
            [j \in 1..Len(used) |-> Cmp(field, pair[used[j]].operator, parameter \o idx[used[j]])],
            [j \in 1..Len(used) |-> Binding(parameter \o idx[used[j]], pair[used[j]].value, S.cnt)])

\* the comparison branch of applyCondition
ApplyComparison(S, field, castField, parameter, cond) ==
  LET less == IF Prop(cond, "<").t # "undef"
                THEN [value |-> Prop(cond, "<"), operator |-> "<"]
                ELSE [value |-> Prop(cond, "<="), operator |-> "<="]
      greater == IF Prop(cond, ">").t # "undef"
                   THEN [value |-> Prop(cond, ">"), operator |-> ">"]
                   ELSE [value |-> Prop(cond, ">="), operator |-> ">="]
      pair == <<less, greater>>
      idx == <<"0", "1">>
      used == SelectSeq(<<1, 2>>, LAMBDA i : pair[i].value.t # "undef")
      expr(i) == castField \o " " \o pair[i].operator \o " :" \o parameter \o idx[i]
      text == IF Len(used) = 2 THEN expr(1) \o " AND " \o expr(2) ELSE expr(used[1])
  IN IF less.value.t = "undef" /\ greater.value.t = "undef"
       THEN Throw(S, "comparison should have value")
     ELSE IF \E i \in 1..2 : pair[i].value.t \notin {"str", "num", "undef"}
       THEN Throw(S, "comparison invalid value")
     ELSE AndWhere(S, text,
            [j \in 1..Len(used) |-> Cmp(field, pair[used[j]].operator, parameter \o idx[used[j]])],
            [j \in 1..Len(used) |-> Binding(parameter \o idx[used[j]], pair[used[j]].value, S.cnt)])

\* the between branch of applyCondition
ApplyBetween(S, field, castField, parameter, cond) ==
  LET values == Prop(cond, "between")
      isIncludes == IF Prop(cond, "isIncludes").t = "bool" THEN Prop(cond, "isIncludes").v ELSE TRUE
      eq == IF isIncludes THEN "=" ELSE ""
      \* values.length: of an array or a string, the length property of an
      \* object; undefined for the other values
      hasTwo == IF values.t = "obj" THEN Prop(values, "length") = Num(2)
                ELSE values.t \in {"arr", "str"} /\ Len(values.v) = 2
      \* values[i - 1]
      elem(i) == CASE values.t = "arr" -> values.v[i]
                   [] values.t = "str" -> Str(SubSeq(values.v, i, i))
                   [] OTHER -> Prop(values, ToString(i - 1))
  IN IF ~Truthy(values) \/ ~hasTwo
       THEN Throw(S, "between should have two value")
       ELSE AndWhere(S,
              castField \o " >" \o eq \o " :" \o parameter \o "min AND "
                \o castField \o " <" \o eq \o " :" \o parameter \o "max",
              <<Cmp(field, ">" \o eq, parameter \o "min"), Cmp(field, "<" \o eq, parameter \o "max")>>,
              <<Binding(parameter \o "min", elem(1), S.cnt), Binding(parameter \o "max", elem(2), S.cnt)>>)

\* a faulty variant: the empty array is accepted
ApplyInAcceptsEmpty(S, field, castField, parameter, cond) ==
  LET value == Nullish(Prop(cond, "in"), Prop(cond, "!in"))
      isNot == IF HasOwn(cond, "!in") THEN " NOT" ELSE ""
  IN IF ~IsArray(value)
       THEN Throw(S, "in or !in should be not empty array")
       ELSE AndWhere(S, castField \o isNot \o " IN (:..." \o parameter \o ")",
                     <<Cmp(field, IF isNot = "" THEN "IN" ELSE "NOT IN", parameter)>>,
                     <<Binding(parameter, value, S.cnt)>>)

\* the in / !in branch of applyCondition
ApplyIn(S, field, castField, parameter, cond) ==
  LET value == Nullish(Prop(cond, "in"), Prop(cond, "!in"))
      isNot == IF HasOwn(cond, "!in") THEN " NOT" ELSE ""
  IN IF ~IsArray(value) \/ Len(value.v) = 0
       THEN Throw(S, "in or !in should be not empty array")
       ELSE AndWhere(S, castField \o isNot \o " IN (:..." \o parameter \o ")",
                     <<Cmp(field, IF isNot = "" THEN "IN" ELSE "NOT IN", parameter)>>,
                     <<Binding(parameter, value, S.cnt)>>)

\* the branches of applyCondition once the parameter name is minted; S.cnt is
\* the number the name was minted with
ApplyOperator(S1, field, parameter, cond) ==
    LET castField == getCastField(field, cond)
        one(x) == <<Binding(parameter, x, S1.cnt)>>
    IN
    IF castField = "" THEN Throw(S1, "field type cast is invalid")
    \* equal
    ELSE IF IsScalar(cond) \/ cond.t = "null" \/ HasOwn(cond, "=") THEN
      AndWhere(S1, castField \o " = :" \o parameter, <<Cmp(field, "=", parameter)>>,
               one(Nullish(Prop(cond, "="), cond)))
    \* not equal
    ELSE IF HasOwn(cond, "!=") THEN
      IF ~IsScalar(Prop(cond, "!=")) /\ Prop(cond, "!=").t # "null"
        THEN Throw(S1, "!= should be one of [string,number,null]")
        ELSE AndWhere(S1, castField \o " != :" \o parameter, <<Cmp(field, "!=", parameter)>>,
                      one(Prop(cond, "!=")))
    \* is null or is not null
    ELSE IF HasOwn(cond, "is null") \/ HasOwn(cond, "is not null") THEN
      LET value == IF HasOwn(cond, "is not null") THEN "IS NOT NULL" ELSE "IS NULL"
      IN AndWhere(S1, castField \o " " \o value, <<Cmp(field, value, "")>>, <<>>)
    \* like
    ELSE IF HasOwn(cond, "like") THEN
      IF Prop(cond, "like").t # "str"
        THEN Throw(S1, "like should be string")
        ELSE LET operator == IF Truthy(Prop(cond, "insensitive")) THEN "ILIKE" ELSE "LIKE"
             IN AndWhere(S1, castField \o " " \o operator \o " :" \o parameter,
                         <<Cmp(field, operator, parameter)>>, one(Prop(cond, "like")))
    \* in or not in
    ELSE IF HasOwn(cond, "in") \/ HasOwn(cond, "!in") THEN
      ApplyIn(S1, field, castField, parameter, cond)
    \* comparison
    ELSE IF \E op \in {"<", "<=", ">", ">="} : HasOwn(cond, op) THEN
      ApplyComparison(S1, field, castField, parameter, cond)
    \* between
    ELSE IF HasOwn(cond, "between") THEN
      ApplyBetween(S1, field, castField, parameter, cond)
    ELSE Throw(S1, "have unknown condition")

\* a faulty variant: the parameter name is minted without incrementing the counter
applyConditionNoIncrement(S, field, cond) ==
  IF cond.t = "undef" THEN Throw(S, "should have value or condition")
  ELSE ApplyOperator(S, field, uniqueParameter(FieldText(field), S.cnt), cond)

\* applyCondition(qb, field, condition): S carries the builder and the counter
applyCondition(S, field, cond) ==
  IF cond.t = "undef" THEN Throw(S, "should have value or condition")
  ELSE LET S1 == [S EXCEPT !.cnt = S.cnt + 1]
       IN ApplyOperator(S1, field, uniqueParameter(FieldText(field), S1.cnt), cond)

----------------------------------------------------------------------------
(* Predicate compiler *)

JQJunction == {"and", "or"}

Max(a, b) == IF a > b THEN a ELSE b

\* qb.andWhere / orWhere(new Brackets(...)): B is the builder the factory of
\* the Brackets wrote to; a factory that throws adds nothing to S
AddBrackets(S, type, B) ==
  [B EXCEPT !.w = IF B.err # "" THEN S.w ELSE Append(S.w, Clause(type, Brackets(B.w)))]

RECURSIVE parseCondition(_, _, _, _, _)
RECURSIVE ParseEntries(_, _, _, _, _, _)
RECURSIVE ParseElements(_, _, _, _, _, _, _)

\* the forEach over the elements of a junction array: each element is
\* compiled into its own Brackets and joined to the nested builder N
ParseElements(xs, i, junction, N, alias, deepLevel, maxDeepWhere) ==
  IF N.err # "" \/ i > Len(xs) THEN N
  ELSE ParseElements(xs, i + 1, junction,
         AddBrackets(N, junction,
           parseCondition(xs[i], [N EXCEPT !.w = <<>>], alias, deepLevel + 1, maxDeepWhere)),
         alias, deepLevel, maxDeepWhere)

\* one entry of Object.entries(condition)
ParseEntry(e, S, alias, deepLevel, maxDeepWhere) ==
  IF e.k \in JQJunction
    THEN IF ~IsArray(e.v)
           THEN Throw(S, "should be array")
           ELSE AddBrackets(S, "and",
                  ParseElements(e.v.v, 1, e.k, [S EXCEPT !.w = <<>>],
                                alias, deepLevel, maxDeepWhere))
    ELSE applyCondition(S, withFieldAlias(e.k, alias), e.v)

ParseEntries(es, i, S, alias, deepLevel, maxDeepWhere) ==
  IF S.err # "" \/ i > Len(es) THEN S
  ELSE ParseEntries(es, i + 1, ParseEntry(es[i], S, alias, deepLevel, maxDeepWhere),
                    alias, deepLevel, maxDeepWhere)

\* a faulty variant: no check of deepLevel against maxDeepWhere
parseConditionNoDepthCheck(condition, S, alias, deepLevel, maxDeepWhere) ==
  LET S1 == [S EXCEPT !.lvl = Max(S.lvl, deepLevel)]
  IN IF ~TypeofObject(condition) \/ IsArray(condition)
       THEN Throw(S1, "invalid where condition")
     ELSE IF condition.t = "null"
       THEN Throw(S1, "TypeError")
     ELSE ParseEntries(condition.v, 1, S1, alias, deepLevel, maxDeepWhere)

\* parseCondition(condition, qb, alias, deepLevel)
parseCondition(condition, S, alias, deepLevel, maxDeepWhere) ==
  LET S1 == [S EXCEPT !.lvl = Max(S.lvl, deepLevel)]
  IN IF ~TypeofObject(condition) \/ IsArray(condition)
       THEN Throw(S1, "invalid where condition")
     ELSE IF deepLevel > maxDeepWhere
       THEN Throw(S1, "max deep where condition should not exceed")
     ELSE IF condition.t = "null"
       \* Object.entries(null) throws a TypeError
       THEN Throw(S1, "TypeError")
     ELSE ParseEntries(condition.v, 1, S1, alias, deepLevel, maxDeepWhere)

----------------------------------------------------------------------------
(* Projection, ordering and grouping resolvers *)

\* x || [] spread into a list
ListOf(x) == IF Truthy(x) /\ IsArray(x) THEN x.v ELSE <<>>

RECURSIVE Dedupe(_)
\* [...new Set(list)]: first occurrences, in order
Dedupe(list) ==
  IF Len(list) = 0 THEN <<>>
  ELSE LET front == Dedupe(SubSeq(list, 1, Len(list) - 1))
           last == list[Len(list)]
       IN IF \E i \in 1..Len(front) : front[i] = last THEN front ELSE Append(front, last)

\* the common body of getAttributes and getGroupBy over the merged sources;
\* the result is [err, list]
ResolveFields(fields, alias, msg) ==
  IF \E i \in 1..Len(fields) : ~Truthy(fields[i]) \/ fields[i].t # "str"
    THEN [err |-> msg, list |-> <<>>]
    ELSE [err |-> "",
          list |-> Dedupe([i \in 1..Len(fields) |-> FieldText(withFieldAlias(fields[i].v, alias))])]

getAttributes(opts, q, auth, alias, attrs) ==
  IF opts.isDisableAttributes THEN [err |-> "", list |-> <<>>]
  ELSE ResolveFields(ListOf(q.attributes) \o ListOf(auth.attributes) \o ListOf(attrs), alias,
                     "some attribute has incorrect name")

getGroupBy(opts, q, auth, alias, attrs) ==
  IF opts.isDisableGroupBy THEN [err |-> "", list |-> <<>>]
  ELSE ResolveFields(ListOf(q.groupBy) \o ListOf(auth.groupBy) \o ListOf(attrs), alias,
                     "some group by attribute has incorrect name")

JQOrder == {"ASC", "DESC"}
JQOrderNulls == {"first", "last"}

\* a faulty variant: a field that is already ordered keeps its first entry
PutOrderKeepFirst(res, item) ==
  IF \E i \in 1..Len(res) : res[i].field = item.field THEN res ELSE Append(res, item)

\* {...res, [sortField]: item}: an existing key keeps its position
PutOrder(res, item) ==
  IF \E i \in 1..Len(res) : res[i].field = item.field
    THEN [i \in 1..Len(res) |-> IF res[i].field = item.field THEN item ELSE res[i]]
    ELSE Append(res, item)

RECURSIVE ReduceOrder(_, _, _, _)
\* the reduce over Object.entries(orderCondition); R is [err, list]
ReduceOrder(es, i, R, alias) ==
  IF R.err # "" \/ i > Len(es) THEN R
  ELSE LET sort == es[i].v
           order == IF sort.t = "obj" \/ sort.t = "arr" THEN Prop(sort, "order") ELSE sort
           nulls == IF sort.t = "obj" \/ sort.t = "arr" THEN Prop(sort, "nulls") ELSE Undef
           bad == \/ ~Truthy(order)
                  \/ ~(order.t = "str" /\ order.v \in JQOrder)
                  \/ Truthy(nulls) /\ ~(nulls.t = "str" /\ nulls.v \in JQOrderNulls)
           nullsOperator == IF nulls.t = "str" /\ nulls.v = "first" THEN "NULLS FIRST"
                            ELSE IF nulls.t = "str" /\ nulls.v = "last" THEN "NULLS LAST"
                            ELSE ""
           sortField == FieldText(withFieldAlias(es[i].k, alias))
       IN IF bad THEN [R EXCEPT !.err = "should have valid sort value"]
          ELSE ReduceOrder(es, i + 1,
                 [R EXCEPT !.list = PutOrder(R.list,
                    [field |-> sortField, value |-> order.v, nulls |-> nullsOperator])],
                 alias)

\* Object.entries(x) of an order-by source
EntriesOf(x) == IF x.t = "obj" THEN x.v ELSE <<>>

getOrderBy(opts, q, alias, orderBy) ==
  IF opts.isDisableOrderBy THEN [err |-> "", list |-> <<>>]
  ELSE LET R1 == IF Truthy(q.orderBy)
                   THEN ReduceOrder(EntriesOf(q.orderBy), 1, [err |-> "", list |-> <<>>], alias)
                   ELSE [err |-> "", list |-> <<>>]
       IN IF Truthy(orderBy) THEN ReduceOrder(EntriesOf(orderBy), 1, R1, alias) ELSE R1

----------------------------------------------------------------------------
(* Relation resolver *)

RECURSIVE DedupeRelations(_)
\* [...new Set(list)] over relation entries: strings are equal by value,
\* objects only by reference, so two object literals are never merged
DedupeRelations(list) ==
  IF Len(list) = 0 THEN <<>>
  ELSE LET front == DedupeRelations(SubSeq(list, 1, Len(list) - 1))
           last == list[Len(list)]
       IN IF last.t = "str" /\ \E i \in 1..Len(front) : front[i].t = "str" /\ front[i].v = last.v
            THEN front ELSE Append(front, last)

\* destructuring default: the property, or the default when it is undefined
Default(x, d) == IF x.t = "undef" THEN d ELSE x

\* the map callback of getRelations for one relation; R is [err, list, cnt, p, lvl]
\* the destructured relation: an object's own keys, or a string as its name
RelationFields(relation) ==
  LET isObj == TypeofObject(relation) /\ relation.t # "null"
      key(k) == IF isObj THEN Prop(relation, k) ELSE Undef
  IN [query |-> [page |-> key("page"), pageSize |-> key("pageSize"),
                 groupBy |-> key("groupBy"), orderBy |-> key("orderBy")],
      name |-> IF isObj THEN Prop(relation, "name") ELSE relation,
      where |-> IF isObj THEN Prop(relation, "where") ELSE Null,
      isLateral |-> Default(key("isLateral"), Bool(FALSE)),
      isSelect |-> Default(key("isSelect"), Bool(TRUE))]

\* the result of one relation added to R; C is the builder its where was
\* compiled into
AddRelation(R, f, relAlias, alias, C) ==
  \* qbWhereParse: the condition is undefined when the builder has no WHERE
  LET hasWhere == Truthy(f.where) /\ Len(C.w) > 0
  IN IF C.err # ""
       THEN [R EXCEPT !.err = C.err, !.cnt = C.cnt, !.p = R.p \o C.p, !.lvl = C.lvl]
       ELSE [R EXCEPT !.cnt = C.cnt, !.p = R.p \o C.p, !.lvl = C.lvl,
                      !.list = Append(R.list,
                        [query |-> f.query,
                         alias |-> relAlias,
                         where |-> IF hasWhere THEN C.w ELSE <<>>,
                         isLateral |-> f.isLateral,
                         isSelect |-> f.isSelect,
                         hasWhere |-> hasWhere,
                         property |-> FieldText(withFieldAlias(f.name.v, alias)),
                         parameters |-> IF hasWhere THEN C.p ELSE <<>>])]

\* a faulty variant: a name of exactly maxDeepRelation segments is rejected
ResolveRelationFieldsDepthOff(R, f, opts, alias) ==
  IF ~Truthy(f.name) \/ f.name.t # "str"
    THEN [R EXCEPT !.err = "some relation has incorrect name"]
  ELSE IF Len(Split(f.name.v, ".")) >= opts.maxDeepRelation
    THEN [R EXCEPT !.err = "relation has reached maximum depth"]
  ELSE AddRelation(R, f, JoinWith(Split(f.name.v, "."), "_"), alias,
         IF Truthy(f.where)
           THEN parseCondition(f.where, [Ctx(R.cnt) EXCEPT !.lvl = R.lvl],
                               JoinWith(Split(f.name.v, "."), "_"), 0, opts.maxDeepWhere)
           ELSE [Ctx(R.cnt) EXCEPT !.lvl = R.lvl])

ResolveRelationFields(R, f, opts, alias) ==
  IF ~Truthy(f.name) \/ f.name.t # "str"
    THEN [R EXCEPT !.err = "some relation has incorrect name"]
  ELSE IF Len(Split(f.name.v, ".")) > opts.maxDeepRelation
    THEN [R EXCEPT !.err = "relation has reached maximum depth"]
  ELSE AddRelation(R, f, JoinWith(Split(f.name.v, "."), "_"), alias,
         IF Truthy(f.where)
           THEN parseCondition(f.where, [Ctx(R.cnt) EXCEPT !.lvl = R.lvl],
                               JoinWith(Split(f.name.v, "."), "_"), 0, opts.maxDeepWhere)
           ELSE [Ctx(R.cnt) EXCEPT !.lvl = R.lvl])

\* the map callback of getRelations
ResolveRelation(R, relation, opts, alias) ==
  ResolveRelationFields(R, RelationFields(relation), opts, alias)

RECURSIVE MapRelations(_, _, _, _, _)
MapRelations(rels, i, R, opts, alias) ==
  IF R.err # "" \/ i > Len(rels) THEN R
  ELSE MapRelations(rels, i + 1, ResolveRelation(R, rels[i], opts, alias), opts, alias)

\* getRelations(relations); the result is [err, list, cnt, p, lvl]
getRelations(opts, q, alias, cnt, relations) ==
  LET R0 == [cnt |-> cnt, p |-> <<>>, err |-> "", lvl |-> -1, list |-> <<>>]
  IN IF opts.isDisableRelations THEN R0
     ELSE MapRelations(
            DedupeRelations(ListOf(Nullish(q.relations, Arr(<<>>)))
                            \o ListOf(Nullish(relations, Arr(<<>>)))),
            1, R0, opts, alias)

----------------------------------------------------------------------------
(* Query assembler *)

\* a faulty variant: the policy's where comes before the stored query's
getWherePolicyFirst(q, auth, where) ==
  SelectSeq(<<auth.where, q.where, where>>, Truthy)

\* getWhere(where): the sources that get a Brackets, in order.  A Brackets
\* runs parseCondition only when it is applied to a builder.
getWhere(q, auth, where) ==
  SelectSeq(<<q.where, auth.where, where>>, Truthy)

\* builder.andWhere(new Brackets(qb => parseCondition(cond, qb))) with the
\* clause type given: S carries the builder
ApplyBrackets(S, cond, type, alias, maxDeepWhere) ==
  AddBrackets(S, type, parseCondition(cond, [S EXCEPT !.w = <<>>], alias, 0, maxDeepWhere))

RECURSIVE ApplyConditions(_, _, _, _, _, _)
\* conditions.forEach((condition) => queryBuilder.andWhere(condition))
ApplyConditions(conds, i, S, type, alias, maxDeepWhere) ==
  IF S.err # "" \/ i > Len(conds) THEN S
  ELSE ApplyConditions(conds, i + 1, ApplyBrackets(S, conds[i], type, alias, maxDeepWhere),
                       type, alias, maxDeepWhere)

\* a fresh query builder for the root entity
EmptyBuilder(alias) ==
  [alias |-> alias, selects |-> <<>>, joins |-> <<>>, wheres |-> <<>>, params |-> <<>>,
   orderBys |-> <<>>, groupBys |-> <<>>, take |-> Undef, skip |-> Undef,
   lateral |-> FALSE, relationsByAlias |-> <<>>]

\* leftJoinAndSelect / leftJoin of every resolved relation
JoinsOf(relations) ==
  [i \in 1..Len(relations) |->
     [alias |-> relations[i].alias, where |-> relations[i].where,
      isSelect |-> Truthy(relations[i].isSelect), hasWhere |-> relations[i].hasWhere,
      property |-> relations[i].property]]

RECURSIVE FlattenParameters(_)
FlattenParameters(relations) ==
  IF Len(relations) = 0 THEN <<>>
  ELSE relations[1].parameters \o FlattenParameters(Tail(relations))

\* the aliases leftJoinAndSelect adds to the selection
JoinSelects(relations) ==
  LET sel == SelectSeq(relations, LAMBDA r : Truthy(r.isSelect))
  IN [i \in 1..Len(sel) |-> sel[i].alias]

\* toQuery(args): the result is [err, qb, cnt, p, lvl]; qb is meaningful only
\* when err = ""
\* toQuery throwing msg: the counter, the bound parameters and the level reached
Failure(base, msg, c, p, l) == [cnt |-> c, p |-> p, err |-> msg, lvl |-> l, qb |-> base]

\* toQuery from the resolved parts on: W is the builder after the where
\* groups have been applied
AssemblePlan(base, q, opts, args, select, relations, sorting, groupByAttr, W) ==
  LET finalPageSize == getPageSize(opts, OrElse(args.pageSize, q.pageSize))
      qb1 == [base EXCEPT
                !.orderBys = base.orderBys \o sorting.list,
                !.joins = base.joins \o JoinsOf(relations.list),
                !.wheres = W.w,
                !.params = base.params \o FlattenParameters(relations.list) \o W.p,
                !.groupBys = base.groupBys \o groupByAttr.list,
                !.selects = IF Len(select.list) > 0 THEN select.list
                            ELSE base.selects \o JoinSelects(relations.list)]
      qb2 == IF opts.isDisablePagination THEN qb1
             ELSE [qb1 EXCEPT
                     !.take = Num(finalPageSize),
                     !.skip = Num(getPage(opts, OrElse(args.page, q.page),
                                          Num(finalPageSize)))]
      qb3 == IF opts.isLateralJoins
               THEN [qb2 EXCEPT !.lateral = TRUE, !.relationsByAlias = relations.list]
               ELSE qb2
  IN IF W.err # "" THEN Failure(base, W.err, W.cnt, relations.p \o W.p, W.lvl)
     ELSE [cnt |-> W.cnt, p |-> relations.p \o W.p, err |-> "", lvl |-> W.lvl, qb |-> qb3]

\* toQuery once the resolvers have run, in the order they throw
ApplyResolved(base, q, auth, opts, cnt, args, select, relations, sorting, groupByAttr) ==
  IF select.err # "" THEN Failure(base, select.err, cnt, <<>>, -1)
  ELSE IF relations.err # ""
    THEN Failure(base, relations.err, relations.cnt, relations.p, relations.lvl)
  ELSE IF sorting.err # ""
    THEN Failure(base, sorting.err, relations.cnt, relations.p, relations.lvl)
  ELSE IF groupByAttr.err # ""
    THEN Failure(base, groupByAttr.err, relations.cnt, relations.p, relations.lvl)
  ELSE AssemblePlan(base, q, opts, args, select, relations, sorting, groupByAttr,
         ApplyConditions(getWhere(q, auth, args.where), 1,
                         [cnt |-> relations.cnt, w |-> base.wheres, p |-> <<>>, err |-> "",
                          lvl |-> relations.lvl],
                         "and", base.alias, opts.maxDeepWhere))

toQuery(base, q, auth, opts, cnt, args) ==
  ApplyResolved(base, q, auth, opts, cnt, args,
                getAttributes(opts, q, auth, base.alias, args.attributes),
                getRelations(opts, q, base.alias, cnt, args.relations),
                getOrderBy(opts, q, base.alias, args.orderBy),
                getGroupBy(opts, q, auth, base.alias, args.groupBy))

----------------------------------------------------------------------------
(* Meaning of a rendered filter for a row.  A row gives every column an     *)
(* integer; the parameter map is the binding list with the last binding of  *)
(* a name winning, as setParameters overwrites.                             *)

Columns == {"TestEntity.id", "TestEntity.param", "rel.id"}
RowValues == 0..3
Rows == [Columns -> RowValues]

ParamValue(P, n) ==
  LET idx == {i \in 1..Len(P) : P[i].n = n}
  IN IF idx = {} THEN Undef ELSE P[CHOOSE i \in idx : \A j \in idx : j <= i].v

\* one comparison of a condition string
EvalCmp(c, row, P) ==
  LET x == row[FieldText(c.f)]
      a == ParamValue(P, c.p)
  IN CASE c.op = "=" -> a.t = "num" /\ x = a.v
       [] c.op = "!=" -> a.t = "num" /\ x # a.v
       [] c.op = "<" -> a.t = "num" /\ x < a.v
       [] c.op = "<=" -> a.t = "num" /\ x <= a.v
       [] c.op = ">" -> a.t = "num" /\ x > a.v
       [] c.op = ">=" -> a.t = "num" /\ x >= a.v
       [] c.op = "IN" -> a.t = "arr" /\ \E i \in 1..Len(a.v) : a.v[i].t = "num" /\ a.v[i].v = x
       [] c.op = "NOT IN" ->
            a.t = "arr" /\ \A i \in 1..Len(a.v) : a.v[i].t = "num" /\ a.v[i].v # x
       [] c.op = "IS NOT NULL" -> TRUE
       [] OTHER -> FALSE

RECURSIVE EvalWheres(_, _, _)
RECURSIVE EvalFrom(_, _, _, _, _)

EvalItem(c, row, P) ==
  IF c.k = "brackets" THEN EvalWheres(c.w, row, P)
  ELSE \A i \in 1..Len(c.cmp) : EvalCmp(c.cmp[i], row, P)

\* left to right with AND binding tighter than OR, as SQL reads the clauses
EvalFrom(ws, i, cur, row, P) ==
  IF i > Len(ws) THEN cur
  ELSE IF ws[i].type = "or"
    THEN cur \/ EvalFrom(ws, i + 1, EvalItem(ws[i].c, row, P), row, P)
    ELSE EvalFrom(ws, i + 1, cur /\ EvalItem(ws[i].c, row, P), row, P)

\* expressionMap.wheres of one builder; no clause at all filters nothing
EvalWheres(ws, row, P) ==
  IF Len(ws) = 0 THEN TRUE ELSE EvalFrom(ws, 2, EvalItem(ws[1].c, row, P), row, P)

(* Reference meaning of a where tree *)

RefLeaf(x, cond) ==
  LET num(v) == v.t = "num"
      up == IF Prop(cond, "<").t # "undef" THEN Prop(cond, "<") ELSE Prop(cond, "<=")
      lo == IF Prop(cond, ">").t # "undef" THEN Prop(cond, ">") ELSE Prop(cond, ">=")
      b == Prop(cond, "between")
      strict == Prop(cond, "isIncludes").t = "bool" /\ ~Prop(cond, "isIncludes").v
  IN CASE cond.t = "num" -> x = cond.v
       [] cond.t # "obj" -> FALSE
       [] HasOwn(cond, "=") -> num(Prop(cond, "=")) /\ x = Prop(cond, "=").v
       [] HasOwn(cond, "!=") -> num(Prop(cond, "!=")) /\ x # Prop(cond, "!=").v
       [] HasOwn(cond, "is not null") -> TRUE
       [] HasOwn(cond, "in") -> \E i \in 1..Len(Prop(cond, "in").v) : Prop(cond, "in").v[i].v = x
       [] HasOwn(cond, "!in") -> \A i \in 1..Len(Prop(cond, "!in").v) : Prop(cond, "!in").v[i].v # x
       [] \E op \in {"<", "<=", ">", ">="} : HasOwn(cond, op) ->
            /\ up.t = "undef" \/ (IF HasOwn(cond, "<") THEN x < up.v ELSE x <= up.v)
            /\ lo.t = "undef" \/ (IF HasOwn(cond, ">") THEN x > lo.v ELSE x >= lo.v)
       [] HasOwn(cond, "between") ->
            IF strict THEN x > b.v[1].v /\ x < b.v[2].v ELSE x >= b.v[1].v /\ x <= b.v[2].v
       [] OTHER -> FALSE

RECURSIVE RefWhere(_, _, _)
\* entries AND-ed; an and list is the conjunction, an or list the disjunction
RefWhere(tree, row, alias) ==
  \A i \in 1..Len(tree.v) :
    LET e == tree.v[i]
    IN IF e.k = "and" THEN \A j \in 1..Len(e.v.v) : RefWhere(e.v.v[j], row, alias)
       ELSE IF e.k = "or" THEN \E j \in 1..Len(e.v.v) : RefWhere(e.v.v[j], row, alias)
       ELSE RefLeaf(row[FieldText(withFieldAlias(e.k, alias))], e.v)

RECURSIVE Depth(_)
\* nesting depth of a where tree: the deepest level of a node, the elements
\* of a junction list being one level below the node that holds the list
Depth(tree) ==
  IF tree.t # "obj" THEN 0
  ELSE LET sub == UNION {IF tree.v[i].k \in {"and", "or"} /\ tree.v[i].v.t = "arr"
                           THEN {1 + Depth(tree.v[i].v.v[j]) : j \in 1..Len(tree.v[i].v.v)}
                           ELSE {} : i \in 1..Len(tree.v)}
       IN IF sub = {} THEN 0 ELSE CHOOSE d \in sub : \A e \in sub : e <= d

RECURSIVE LeafCount(_)
RECURSIVE LeafCountList(_)
RECURSIVE LeafCountEntries(_)
\* number of field entries with a defined value in a where tree
LeafCountEntries(es) ==
  IF Len(es) = 0 THEN 0
  ELSE (IF es[1].k \in {"and", "or"}
          THEN (IF es[1].v.t = "arr" THEN LeafCountList(es[1].v.v) ELSE 0)
          ELSE (IF es[1].v.t = "undef" THEN 0 ELSE 1))
       + LeafCountEntries(Tail(es))

LeafCountList(xs) == IF Len(xs) = 0 THEN 0 ELSE LeafCount(xs[1]) + LeafCountList(Tail(xs))

LeafCount(tree) == IF tree.t # "obj" THEN 0 ELSE LeafCountEntries(tree.v)

----------------------------------------------------------------------------
(* Inputs *)

F(k, x) == Obj(<<Entry(k, x)>>)
And(xs) == F("and", Arr(xs))
Or(xs) == F("or", Arr(xs))
Op(op, x) == F(op, x)

IdIs1 == F("id", Num(1))
IdIs2 == F("id", Num(2))
ParamIs1 == F("param", Num(1))
ParamIs2 == F("param", Num(2))
ParamIs9 == F("param", Num(9))
IdLess1 == F("id", Op("<", Num(1)))

\* ten leaves: the first a comparison on id, the tenth an equality on id
WideOr10 ==
  Or(<<IdLess1, ParamIs9, ParamIs9, ParamIs9, ParamIs9,
       ParamIs9, ParamIs9, ParamIs9, ParamIs9, IdIs2>>)

\* nine leaves, the ninth an equality on id
WideOr9 ==
  Or(<<F("param", Num(0)), ParamIs9, ParamIs9, ParamIs9,
       ParamIs9, ParamIs9, ParamIs9, ParamIs9, IdIs2>>)

Deep3 == And(<<And(<<And(<<IdIs1>>)>>)>>)

ValidWheres ==
  { IdIs1,
    Obj(<<Entry("id", Num(1)), Entry("param", Num(2))>>),
    Or(<<IdIs1, ParamIs2>>),
    And(<<IdIs1, Or(<<IdIs2, ParamIs1>>)>>),
    Obj(<<Entry("param", Num(1)), Entry("or", Arr(<<IdIs1, IdIs2>>))>>),
    Or(<<Obj(<<Entry("id", Num(1)), Entry("param", Num(2))>>), IdIs2>>),
    Deep3,
    IdLess1,
    F("id", Obj(<<Entry(">=", Num(1)), Entry("<=", Num(2))>>)),
    F("id", Op("between", Arr(<<Num(1), Num(2)>>))),
    F("id", Op("in", Arr(<<Num(1), Num(3)>>))),
    F("id", Op("!=", Num(1))),
    F("id", Op("like", Str("a"))),
    F("id", Op("is null", Null)),
    F("rel.id", Num(1)),
    WideOr9,
    WideOr10 }

InvalidWheres ==
  { Num(1),
    Arr(<<>>),
    And(<<Num(1)>>),
    F("and", Obj(<<>>)),
    F("or", Num(1)),
    F("or", Str("")),
    F("and", Arr(<<>>)),
    F("id", Undef),
    F("id", Op("unknown", Num(1))),
    F("id", Op("in", Arr(<<>>))),
    Obj(<<Entry("id", Undef), Entry("and", Arr(<<And(<<And(<<IdIs1>>)>>)>>))>>),
    Obj(<<Entry("and", Arr(<<And(<<And(<<IdIs1>>)>>)>>)), Entry("id", Undef)>>) }

ArgWheres == {Undef} \cup ValidWheres \cup InvalidWheres

QueryWheres == {Undef, Or(<<IdIs1, ParamIs2>>)}

\* the where overrides passed to toQuery
QueryArgWheres ==
  { Undef, IdIs1, Or(<<IdIs1, ParamIs2>>), And(<<IdIs1, Or(<<IdIs2, ParamIs1>>)>>), Deep3,
    F("id", Op("between", Arr(<<Num(1), Num(2)>>))), WideOr9, WideOr10,
    F("and", Arr(<<>>)), F("id", Undef) }

AuthWheres == {Undef, ParamIs2, IdLess1, WideOr10}

Relation(name, where) == Obj(<<Entry("name", Str(name)), Entry("where", where)>>)

ArgRelations ==
  { Undef,
    Arr(<<Str("rel")>>),
    Arr(<<Relation("rel", IdIs1)>>),
    Arr(<<Relation("rel", Or(<<IdIs1, F("id", Op("<", Num(3)))>>)), Str("rel.sub")>>),
    Arr(<<Relation("rel", And(<<And(<<And(<<IdIs1>>)>>)>>))>>),
    Arr(<<Relation("a.b.c.d.e", Undef)>>),
    Arr(<<Obj(<<>>)>>) }

NoArgs ==
  [page |-> Undef, pageSize |-> Undef, attributes |-> Undef, groupBy |-> Undef,
   orderBy |-> Undef, where |-> Undef, relations |-> Undef]

\* a stored query; opts are option keys a caller may put into the query
EmptyQuery ==
  [opts |-> OptionsObject(<<>>), page |-> Undef, pageSize |-> Undef, attributes |-> Undef,
   groupBy |-> Undef, orderBy |-> Undef, where |-> Undef, relations |-> Undef]

QueryOptionSets ==
  { OptionsObject(<<>>),
    OptionsObject([defaultPageSize |-> 7, maxPageSize |-> 0, isDisablePagination |-> TRUE]) }

QueryPages == {Undef, Num(0), Num(2)}
QueryPageSizes == {Undef, Num(0), Num(150)}

\* option keys given in the policy query and in the options argument
AuthOptionSets ==
  { OptionsObject(<<>>),
    OptionsObject([maxPageSize |-> 0]),
    OptionsObject([maxPageSize |-> 3, isDisablePagination |-> FALSE]),
    OptionsObject([defaultPageSize |-> 0, maxPageSize |-> 3, maxDeepWhere |-> 1]),
    OptionsObject([isDisablePagination |-> TRUE, isLateralJoins |-> FALSE]) }

UserOptionSets ==
  { OptionsObject(<<>>),
    OptionsObject([defaultPageSize |-> 2]),
    OptionsObject([defaultPageSize |-> 150, maxPageSize |-> 10, isDisablePagination |-> TRUE]),
    OptionsObject([maxPageSize |-> 0, maxDeepWhere |-> 2, isLateralJoins |-> FALSE]) }

PageNumbers == {Undef, Num(0), Num(1), Num(2)}
PageSizes == {Undef, Num(0), Num(5), Num(150), Num(-1)}
MaxDeepWheres == {1, 2}

WhereQueryArgs ==
  {[NoArgs EXCEPT !.where = w] : w \in QueryArgWheres}
  \cup {[NoArgs EXCEPT !.relations = r] : r \in ArgRelations \ {Undef}}
  \cup {[NoArgs EXCEPT !.relations = Arr(<<Relation("rel", IdLess1)>>), !.where = WideOr9],
        [NoArgs EXCEPT !.attributes = Arr(<<Str("id"), Str("")>>), !.where = IdIs1],
        [NoArgs EXCEPT !.orderBy = F("id", Str("up")), !.where = IdIs1],
        [NoArgs EXCEPT !.attributes = Arr(<<Str("id")>>), !.orderBy = F("id", Str("ASC")),
                       !.groupBy = Arr(<<Str("id")>>), !.where = IdIs1]}

PageQueryArgs ==
  {[NoArgs EXCEPT !.page = pg, !.pageSize = sz] : pg \in PageNumbers, sz \in PageSizes}

----------------------------------------------------------------------------
(* State machine *)

Outcome(op, args, err, cnt0, cnt, p, lvl) ==
  [cnt |-> cnt, op |-> op, p |-> p, err |-> err, lvl |-> lvl, condition |-> "", relations |-> <<>>,
   qb |-> EmptyBuilder(""), args |-> args, sorting |-> <<>>, num |-> 0, cnt0 |-> cnt0, groups |-> <<>>,
   names |-> <<>>]

\* TypeormJsonQuery.init({queryBuilder, query, authQuery}, options)
InitWith(base, q, auth, user) ==
  /\ queryBuilder = base
  /\ query = q
  /\ authQuery = auth
  /\ userOptions = user
  /\ options = ConstructOptions(DefaultOptions, auth.opts, user, 1)
  /\ queryParamsCount = 0
  /\ ret = Outcome("init", NoArgs, "", 0, 0, <<>>, -1)

Alias == "TestEntity"

\* instances used for predicate compilation
Init ==
  \E qw \in QueryWheres, aw \in AuthWheres, d \in MaxDeepWheres :
    InitWith(EmptyBuilder(Alias),
             [EmptyQuery EXCEPT !.where = qw],
             [opts |-> OptionsObject(<<>>), attributes |-> Undef, groupBy |-> Undef,
              where |-> aw],
             OptionsObject([maxDeepWhere |-> d]))

\* instances used for pagination and options
InitPage ==
  \E ao \in AuthOptionSets, uo \in UserOptionSets, qo \in QueryOptionSets,
     pg \in QueryPages, sz \in QueryPageSizes :
    InitWith(EmptyBuilder(Alias),
             [EmptyQuery EXCEPT !.page = pg, !.pageSize = sz, !.opts = qo],
             [opts |-> ao, attributes |-> Undef, groupBy |-> Undef, where |-> Undef],
             uo)

\* a faulty variant: the parameters bound by a call are set on the base builder
FrameParametersKept ==
  /\ UNCHANGED <<query, authQuery, userOptions, options>>
  /\ queryBuilder' = [queryBuilder EXCEPT !.params = queryBuilder.params \o ret'.p]

Frame == UNCHANGED <<queryBuilder, query, authQuery, userOptions, options>>

\* a faulty variant: the plan is built on the base builder, not on a clone
ToQueryOnBase(args) ==
  \E r \in {toQuery(queryBuilder, query, authQuery, options, queryParamsCount, args)} :
    /\ r.cnt <= MaxCount
    /\ queryParamsCount' = r.cnt
    /\ ret' = [Outcome("toQuery", args, r.err, queryParamsCount, r.cnt, r.p, r.lvl)
                 EXCEPT !.qb = r.qb]
    /\ queryBuilder' = r.qb
    /\ UNCHANGED <<query, authQuery, userOptions, options>>

\* instance.toQuery(args)
ToQuery(args) ==
  \E r \in {toQuery(queryBuilder, query, authQuery, options, queryParamsCount, args)} :
    /\ r.cnt <= MaxCount
    /\ queryParamsCount' = r.cnt
    /\ ret' = [Outcome("toQuery", args, r.err, queryParamsCount, r.cnt, r.p, r.lvl)
                 EXCEPT !.qb = r.qb]
    /\ Frame

\* the groups compiled so far, with the group S compiled from cond added
AddGroup(G, cond, S) ==
  [G EXCEPT !.err = S.err, !.cnt = S.cnt, !.lvl = S.lvl, !.p = G.p \o S.p,
            !.groups = IF S.err # "" THEN G.groups
                       ELSE Append(G.groups, [w |-> S.w, p |-> S.p, src |-> cond])]

RECURSIVE CompileGroups(_, _, _, _, _)
\* every Brackets of getWhere applied to a builder of its own: where(bracket)
CompileGroups(conds, i, G, alias, maxDeepWhere) ==
  IF G.err # "" \/ i > Len(conds) THEN G
  ELSE CompileGroups(conds, i + 1,
         AddGroup(G, conds[i],
                  ApplyBrackets([Ctx(G.cnt) EXCEPT !.lvl = G.lvl], conds[i], "simple", alias,
                                maxDeepWhere)),
         alias, maxDeepWhere)

\* instance.getWhere(where), each returned Brackets then applied to a builder
GetWhere(where) ==
  \E G \in {CompileGroups(getWhere(query, authQuery, where), 1,
                           [cnt |-> queryParamsCount, p |-> <<>>, err |-> "", lvl |-> -1,
                            groups |-> <<>>],
                           queryBuilder.alias, options.maxDeepWhere)} :
    /\ G.cnt <= MaxCount
    /\ queryParamsCount' = G.cnt
    /\ ret' = [Outcome("getWhere", [NoArgs EXCEPT !.where = where], G.err, queryParamsCount,
                       G.cnt, G.p, G.lvl)
                 EXCEPT !.groups = G.groups]
    /\ Frame

\* instance.getRelations(relations)
GetRelations(relations) ==
  \E R \in {getRelations(options, query, queryBuilder.alias, queryParamsCount, relations)} :
    /\ R.cnt <= MaxCount
    /\ queryParamsCount' = R.cnt
    /\ ret' = [Outcome("getRelations", [NoArgs EXCEPT !.relations = relations], R.err,
                       queryParamsCount, R.cnt, R.p, R.lvl)
                 EXCEPT !.relations = IF R.err # "" THEN <<>> ELSE R.list]
    /\ Frame

\* instance.getPageSize(size)
GetPageSize(size) ==
  /\ ret' = [Outcome("getPageSize", [NoArgs EXCEPT !.pageSize = size], "", queryParamsCount,
                     queryParamsCount, <<>>, -1)
               EXCEPT !.num = getPageSize(options, size)]
  /\ UNCHANGED queryParamsCount
  /\ Frame

\* instance.getPage(page, pageSize)
GetPage(page, pageSize) ==
  /\ ret' = [Outcome("getPage", [NoArgs EXCEPT !.page = page, !.pageSize = pageSize], "",
                     queryParamsCount, queryParamsCount, <<>>, -1)
               EXCEPT !.num = getPage(options, page, pageSize)]
  /\ UNCHANGED queryParamsCount
  /\ Frame

Next ==
  \/ \E a \in WhereQueryArgs : ToQuery(a)
  \/ \E w \in ArgWheres : GetWhere(w)
  \/ \E r \in ArgRelations : GetRelations(r)

NextPage ==
  \/ \E a \in PageQueryArgs : ToQuery(a)
  \/ \E sz \in PageSizes : GetPageSize(sz)
  \/ \E pg \in PageNumbers, sz \in PageSizes : GetPage(pg, sz)

Spec == Init /\ [][Next]_vars

SpecPage == InitPage /\ [][NextPage]_vars

----------------------------------------------------------------------------
(* Properties *)

PaginationOn == ~options.isDisablePagination

RootAlias == queryBuilder.alias

\* the where sources of the instance and of the call, in the order query, policy, override
Sources(where) == SelectSeq(<<query.where, authQuery.where, where>>, LAMBDA x : x.t # "undef")

\* C1: getWhere yields one bracketed group per source in the order query,
\* policy, override, toQuery joins each group to the plan with AND, and a row
\* for which the policy where is false never satisfies the filter of a plan.
C1_PolicyAlwaysEnforced ==
  /\ (ret.op = "getWhere" /\ ret.err = "") =>
       /\ Len(ret.groups) = Len(Sources(ret.args.where))
       /\ \A i \in 1..Len(ret.groups) :
            /\ ret.groups[i].src = Sources(ret.args.where)[i]
            /\ Len(ret.groups[i].w) = 1
            /\ ret.groups[i].w[1].c.k = "brackets"
  /\ (ret.op = "toQuery" /\ ret.err = "") =>
       /\ Len(ret.qb.wheres) = Len(Sources(ret.args.where))
       /\ \A i \in 1..Len(ret.qb.wheres) :
            ret.qb.wheres[i].type = "and" /\ ret.qb.wheres[i].c.k = "brackets"
       /\ authQuery.where.t # "undef" =>
            \A row \in Rows :
              EvalWheres(ret.qb.wheres, row, ret.qb.params)
                => RefWhere(authQuery.where, row, RootAlias)

\* C2: with pagination enabled the limit of a plan is never above a positive
\* maxPageSize and never 0 then; a limit of 0 occurs only when maxPageSize is 0.
C2_LimitWithinMax ==
  (ret.op = "toQuery" /\ ret.err = "" /\ PaginationOn) =>
    /\ ret.qb.take.t = "num"
    /\ options.maxPageSize > 0 =>
         ret.qb.take.v <= options.maxPageSize /\ ret.qb.take.v # 0
    /\ ret.qb.take.v = 0 => options.maxPageSize = 0

C2_Witness ==
  /\ ret.op = "toQuery" /\ PaginationOn
  /\ options.maxPageSize > 0
  /\ ret.args.pageSize.t = "num" /\ ret.args.pageSize.v > options.maxPageSize
  /\ ret.qb.take = Num(options.maxPageSize)

\* the reference page size of C3
RefPageSize(size) ==
  LET s == IF size.t = "undef" THEN options.defaultPageSize ELSE size.v
  IN IF s = 0 THEN options.maxPageSize
     ELSE IF options.maxPageSize > 0 /\ s > options.maxPageSize THEN options.maxPageSize
     ELSE s

GivenPage(args) ==
  IF args.page.t # "undef" THEN args.page.v
  ELSE IF query.page.t # "undef" THEN query.page.v ELSE 1

\* the page of a plan when page 0 counts as absent
NonZeroPage(args) ==
  IF args.page.t = "num" /\ args.page.v # 0 THEN args.page.v
  ELSE IF query.page.t = "num" /\ query.page.v # 0 THEN query.page.v ELSE 1

\* C4 as stated: offset = (p - 1) x limit with p the page argument if given,
\* else the stored page, else 1.
C4_OffsetOfGivenPage ==
  (ret.op = "toQuery" /\ ret.err = "" /\ PaginationOn) =>
    ret.qb.skip = Num((GivenPage(ret.args) - 1) * ret.qb.take.v)

\* C4 amended: offset = (p - 1) x limit with p the page argument if it is
\* given and not 0, else the stored page if it is given and not 0, else 1;
\* an absent page or page 1 gives offset 0, and getPage(2) with effective
\* page size 25 gives 25.
C4_OffsetOfNonZeroPage ==
  /\ (ret.op = "toQuery" /\ ret.err = "" /\ PaginationOn) =>
       /\ ret.qb.skip = Num((NonZeroPage(ret.args) - 1) * ret.qb.take.v)
       /\ NonZeroPage(ret.args) = 1 => ret.qb.skip = Num(0)
  /\ ret.op = "getPage" =>
       /\ ret.args.page \in {Undef, Num(1)} => ret.num = 0
       /\ (ret.args.page = Num(2) /\ RefPageSize(ret.args.pageSize) = 25) => ret.num = 25

C4_Witness ==
  /\ ret.op = "toQuery" /\ PaginationOn
  /\ ret.args.page = Num(0) /\ query.page = Num(2)
  /\ ret.qb.take.v > 0 /\ ret.qb.skip = ret.qb.take

\* C5: every option has the policy's value when the policy defines one, else
\* the value of the options argument, else the built-in default, whatever the
\* caller's query holds and whatever operations have run.
C5_OptionPrecedence ==
  \A name \in OptionKeys :
    options[name] =
      IF authQuery.opts[name].t # "undef" THEN authQuery.opts[name].v
      ELSE IF userOptions[name].t # "undef" THEN userOptions[name].v
      ELSE DefaultOptions[name]

C5_Witness ==
  /\ ret.op = "toQuery"
  /\ authQuery.opts["maxPageSize"] = Num(3) /\ userOptions["maxPageSize"] = Num(10)
  /\ query.opts["maxPageSize"] = Num(0)
  /\ options.maxPageSize = 3 /\ options.defaultPageSize = 150
  /\ options.maxDeepRelation = 4

\* C6: no parameter name bound for one leaf condition is bound for another
\* leaf condition.
C6_UniqueParameterNames ==
  \A i, j \in 1..Len(ret.p) : ret.p[i].n = ret.p[j].n => ret.p[i].leaf = ret.p[j].leaf

\* the where trees an operation compiles, in compilation order
RelationWheres(rels) ==
  LET all == DedupeRelations(ListOf(Nullish(query.relations, Arr(<<>>)))
                             \o ListOf(Nullish(rels, Arr(<<>>))))
      withWhere == SelectSeq(all, LAMBDA r : r.t = "obj" /\ Truthy(Prop(r, "where")))
  IN [i \in 1..Len(withWhere) |-> Prop(withWhere[i], "where")]

CompiledTrees(r) ==
  CASE r.op = "getWhere" -> getWhere(query, authQuery, r.args.where)
    [] r.op = "getRelations" -> RelationWheres(r.args.relations)
    [] r.op = "toQuery" -> RelationWheres(r.args.relations) \o getWhere(query, authQuery, r.args.where)
    [] OTHER -> <<>>

RECURSIVE SumLeaves(_)
SumLeaves(trees) == IF Len(trees) = 0 THEN 0 ELSE LeafCount(trees[1]) + SumLeaves(Tail(trees))

\* C7: the counter starts at 0, never decreases, is never reset, and an
\* operation that succeeds raises it by exactly the number of leaf conditions
\* with a defined value that it compiled; a failing operation raises it by at
\* most that number.  Parameter numbers continue from the counter's value.
C7_CounterMonotonic ==
  /\ queryParamsCount = 0
  /\ [][/\ queryParamsCount' >= queryParamsCount
        /\ ret'.cnt0 = queryParamsCount /\ ret'.cnt = queryParamsCount'
        /\ ret'.err = "" => queryParamsCount' = queryParamsCount + SumLeaves(CompiledTrees(ret'))
        /\ queryParamsCount' <= queryParamsCount + SumLeaves(CompiledTrees(ret'))
        /\ \A i \in 1..Len(ret'.p) :
             ret'.p[i].leaf > queryParamsCount /\ ret'.p[i].leaf <= queryParamsCount']_vars

C7_Witness ==
  ret.op = "getWhere" /\ ret.err = "" /\ ret.cnt0 > 0 /\ ret.cnt > ret.cnt0 + 1

Operators ==
  {"=", "!=", "like", "in", "!in", "<", "<=", ">", ">=", "between", "is null", "is not null"}

Modifiers == {"type", "insensitive", "isIncludes"}

\* a leaf condition that the data model allows
ValidLeaf(c) ==
  \/ c.t \in {"num", "str", "null"}
  \/ /\ c.t = "obj"
     /\ \A i \in 1..Len(c.v) : c.v[i].k \in Operators \cup Modifiers
     /\ \E i \in 1..Len(c.v) : c.v[i].k \in Operators
     /\ \A i \in 1..Len(c.v) :
          LET x == c.v[i].v
          IN CASE c.v[i].k \in {"=", "!="} -> x.t \in {"num", "str", "null"}
               [] c.v[i].k = "like" -> x.t = "str"
               [] c.v[i].k \in {"in", "!in"} -> x.t = "arr" /\ Len(x.v) > 0
               [] c.v[i].k \in {"<", "<=", ">", ">="} -> x.t \in {"num", "str"}
               [] c.v[i].k = "between" -> x.t = "arr" /\ Len(x.v) = 2
               [] c.v[i].k = "type" -> x.t = "str" /\ x.v \in JQFieldType
               [] OTHER -> TRUE
     /\ \A i, j \in 1..Len(c.v) :
          (c.v[i].k \in Operators /\ c.v[j].k \in Operators /\ i # j)
            => {c.v[i].k, c.v[j].k} \in {{"<", ">"}, {"<", ">="}, {"<=", ">"}, {"<=", ">="}}

RECURSIVE ValidTree(_)
\* a where tree that is valid apart from its depth
ValidTree(tree) ==
  /\ tree.t = "obj"
  /\ \A i \in 1..Len(tree.v) :
       IF tree.v[i].k \in JQJunction
         THEN /\ tree.v[i].v.t = "arr"
              /\ Len(tree.v[i].v.v) > 0
              /\ \A j \in 1..Len(tree.v[i].v.v) : ValidTree(tree.v[i].v.v[j])
         ELSE ValidLeaf(tree.v[i].v)

MaxDeepError == "max deep where condition should not exceed"

\* the where tree of an operation that compiles exactly one tree and
\* validates nothing else that fails
SoleTree ==
  IF /\ Len(CompiledTrees(ret)) = 1
     /\ ret.err \notin {"some relation has incorrect name", "relation has reached maximum depth",
                        "some attribute has incorrect name", "should have valid sort value",
                        "some group by attribute has incorrect name"}
    THEN CompiledTrees(ret) ELSE <<>>

\* C8 as stated: a tree nested maxDeepWhere + 1 or deeper throws the max-deep
\* error, a valid tree nested at most maxDeepWhere compiles, and the recursion
\* never descends past level maxDeepWhere + 1.
C8_DeepTreeThrowsMaxDeep ==
  /\ ret.lvl <= options.maxDeepWhere + 1
  /\ \A i \in 1..Len(SoleTree) :
       LET tree == SoleTree[i]
       IN tree.t = "obj" =>
            /\ Depth(tree) >= options.maxDeepWhere + 1 => ret.err = MaxDeepError
            /\ (Depth(tree) <= options.maxDeepWhere /\ ValidTree(tree)) => ret.err = ""

\* C8 amended: a tree nested maxDeepWhere + 1 or deeper always throws, and the
\* error is the max-deep error when the tree is otherwise valid (another
\* defect met earlier in the traversal throws its own error first); a valid
\* tree nested at most maxDeepWhere compiles; the recursion never descends
\* past level maxDeepWhere + 1.
C8_DeepTreeThrows ==
  /\ ret.lvl <= options.maxDeepWhere + 1
  /\ \A i \in 1..Len(SoleTree) :
       LET tree == SoleTree[i]
       IN tree.t = "obj" =>
            /\ Depth(tree) >= options.maxDeepWhere + 1 => ret.err # ""
            /\ (Depth(tree) >= options.maxDeepWhere + 1 /\ ValidTree(tree))
                 => ret.err = MaxDeepError
            /\ (Depth(tree) <= options.maxDeepWhere /\ ValidTree(tree)) => ret.err = ""

C8_Witness ==
  /\ ret.op = "getWhere" /\ Len(SoleTree) = 1
  /\ Depth(SoleTree[1]) = options.maxDeepWhere + 1 /\ ValidTree(SoleTree[1])
  /\ ret.err = MaxDeepError /\ ret.lvl = options.maxDeepWhere + 1

\* C9: the filter compiled from a where tree holds of a row exactly when the
\* tree's reference meaning does.
C9_CompiledEqualsReference ==
  (ret.op = "getWhere" /\ ret.err = "") =>
    \A i \in 1..Len(ret.groups) : \A row \in Rows :
      EvalWheres(ret.groups[i].w, row, ret.groups[i].p)
        <=> RefWhere(ret.groups[i].src, row, RootAlias)

\* C10: an and/or key whose value is not a non-empty array is rejected with a
\* validation error and no filter is produced.
C10_JunctionNeedsNonEmptyArray ==
  (/\ ret.op = "getWhere"
   /\ ret.args.where.t = "obj"
   /\ \E i \in 1..Len(ret.args.where.v) :
        /\ ret.args.where.v[i].k \in JQJunction
        /\ ~(ret.args.where.v[i].v.t = "arr" /\ Len(ret.args.where.v[i].v.v) > 0))
    => ret.err # "" /\ Len(ret.groups) < Len(Sources(ret.args.where))

----------------------------------------------------------------------------
(* Leaf conditions: one field compiled through getWhere on a fresh instance *)

\* the conditions given to the field id
LeafConditions ==
  { Undef, Num(1), Num(2), Str("a"), Str(""), Null, Bool(TRUE), Arr(<<Num(1)>>), Obj(<<>>),
    Op("=", Num(1)), Op("=", Num(2)), Op("=", Str("a")), Op("=", Null),
    Op("!=", Num(1)), Op("!=", Null), Op("!=", Arr(<<>>)),
    Op("like", Str("a")), Op("like", Str("b")), Op("like", Num(1)),
    Obj(<<Entry("like", Str("a")), Entry("insensitive", Bool(TRUE))>>),
    Op("is null", Null), Op("is not null", Null), Op("unknown", Num(1)),
    Obj(<<Entry("=", Num(1)), Entry("type", Str("text"))>>),
    Obj(<<Entry("=", Num(1)), Entry("type", Str("json"))>>),
    Op("in", Arr(<<Num(1)>>)), Op("in", Arr(<<Num(1), Num(2), Num(3)>>)),
    Op("!in", Arr(<<Num(1)>>)), Op("!in", Arr(<<Str("a"), Null>>)),
    Op("in", Arr(<<>>)), Op("!in", Arr(<<>>)), Op("in", Null), Op("!in", Null),
    Op("in", Num(1)), Op("in", Str("ab")), Op("!in", Obj(<<>>)),
    Op("between", Arr(<<Num(1), Num(2)>>)), Op("between", Arr(<<Str("a"), Str("c")>>)),
    Op("between", Arr(<<>>)), Op("between", Arr(<<Num(1)>>)),
    Op("between", Arr(<<Num(1), Num(2), Num(3)>>)),
    Op("between", Str("a")), Op("between", Str("ab")), Op("between", Str("abc")),
    Op("between", Str("")), Op("between", Obj(<<>>)), Op("between", Null),
    Op("between", Num(5)), Op("between", F("length", Num(2))),
    Op("between", Obj(<<Entry("length", Num(2)), Entry("0", Num(1))>>)),
    Obj(<<Entry("between", Arr(<<Num(1), Num(2)>>)), Entry("isIncludes", Bool(TRUE))>>),
    Obj(<<Entry("between", Arr(<<Num(1), Num(2)>>)), Entry("isIncludes", Bool(FALSE))>>),
    Obj(<<Entry("between", Arr(<<Num(1), Num(2)>>)), Entry("isIncludes", Num(0))>>),
    Obj(<<Entry("between", Arr(<<Num(1), Num(2)>>)), Entry("isIncludes", Str("no"))>>),
    Op("<", Num(1)), Op("<", Num(2)), Op("<=", Num(1)), Op(">", Num(1)), Op(">=", Str("a")),
    Obj(<<Entry(">=", Num(1)), Entry("<=", Num(2))>>),
    Obj(<<Entry(">", Num(1)), Entry("<", Num(3))>>),
    Obj(<<Entry("<", Num(1)), Entry("<=", Num(2))>>),
    Obj(<<Entry("<=", Num(2)), Entry("<", Num(1))>>),
    Obj(<<Entry(">", Num(1)), Entry(">=", Num(2)), Entry("<=", Num(3))>>),
    Obj(<<Entry("<", Num(1)), Entry("<=", Arr(<<>>))>>),
    Op("<", Undef), Obj(<<Entry("<", Undef), Entry(">=", Undef)>>),
    Op("<", Null), Op(">", Arr(<<Num(1)>>)), Op("<=", Bool(TRUE)),
    Obj(<<Entry("<", Num(1)), Entry(">", Obj(<<>>))>>),
    Obj(<<Entry("=", Num(1)), Entry("!=", Num(2))>>),
    Obj(<<Entry("like", Str("a")), Entry("between", Arr(<<Num(1), Num(2)>>))>>),
    Obj(<<Entry("in", Arr(<<Num(1)>>)), Entry("<", Num(2))>>) }

\* TypeormJsonQuery.init({queryBuilder}): no stored query, no policy
InitLeaf ==
  InitWith(EmptyBuilder(Alias), EmptyQuery,
           [opts |-> OptionsObject(<<>>), attributes |-> Undef, groupBy |-> Undef,
            where |-> Undef],
           OptionsObject(<<>>))

\* where trees of several leaves, in pairs that differ in the values only
LeafTrees ==
  { Obj(<<Entry("id", Num(1)), Entry("param", Op("like", Str("a")))>>),
    Obj(<<Entry("id", Num(2)), Entry("param", Op("like", Str("b")))>>),
    And(<<IdIs1, F("param", Op("in", Arr(<<Num(1)>>)))>>),
    And(<<IdIs2, F("param", Op("in", Arr(<<Num(2), Num(3)>>)))>>),
    Or(<<F("id", Op("<", Num(1))), And(<<ParamIs1, F("id", Op("between", Arr(<<Num(1), Num(2)>>)))>>)>>),
    Or(<<F("id", Op("<", Str("a"))), And(<<ParamIs2, F("id", Op("between", Str("ab")))>>)>>) }

NextLeaf ==
  \/ \E c \in LeafConditions : GetWhere(F("id", c))
  \/ \E where \in LeafTrees : GetWhere(where)

SpecLeaf == InitLeaf /\ [][NextLeaf]_vars

\* the last call was getWhere({id: condition})
IsLeafCall ==
  ret.op = "getWhere" /\ \E c \in LeafConditions : ret.args.where = F("id", c)

\* the condition that the last getWhere({id: condition}) was given
LeafGiven == ret.args.where.v[1].v

\* the fragments that call added for the field, none when it threw
LeafClauses ==
  IF ret.err = "" /\ Len(ret.groups) = 1 THEN ret.groups[1].w[1].c.w ELSE <<>>

\* the parameter name minted for the leaf
LeafParameter == uniqueParameter("TestEntity.id", ret.cnt)

\* C11: a leaf that is a string, a number, null or an object carrying the =
\* key compiles to exactly one fragment field = :p, and p is bound to the
\* scalar itself or, for the object form, to the value stored under =
\* (a string, a number or null).
C11_EqualBindsValue ==
  (/\ IsLeafCall
   /\ \/ LeafGiven.t \in {"str", "num", "null"}
      \/ /\ HasOwn(LeafGiven, "=") /\ ~HasOwn(LeafGiven, "type")
         /\ Prop(LeafGiven, "=").t \in {"str", "num", "null"})
    => /\ ret.err = ""
       /\ Len(LeafClauses) = 1
       /\ LeafClauses[1].c.text = "TestEntity.id = :" \o LeafParameter
       /\ ret.p = <<Binding(LeafParameter,
                            IF LeafGiven.t = "obj" THEN Prop(LeafGiven, "=") ELSE LeafGiven,
                            ret.cnt)>>

\* C12: a leaf whose operator is between is rejected with the "between should
\* have two value" error unless the value is an array of exactly two elements
\* (a string of any length, an object and null are rejected); otherwise it
\* compiles to field >= :pmin AND field <= :pmax, with strict operators when
\* isIncludes is false, and pmin, pmax are bound to the first and the second
\* element.
C12_BetweenNeedsPair ==
  LET values == Prop(LeafGiven, "between")
      eq == IF Prop(LeafGiven, "isIncludes") = Bool(FALSE) THEN "" ELSE "="
  IN (/\ IsLeafCall
      /\ HasOwn(LeafGiven, "between")
      /\ \A i \in 1..Len(LeafGiven.v) : LeafGiven.v[i].k \in {"between", "isIncludes"})
       => IF IsArray(values) /\ Len(values.v) = 2
            THEN /\ ret.err = ""
                 /\ Len(LeafClauses) = 1
                 /\ LeafClauses[1].c.text =
                      "TestEntity.id >" \o eq \o " :" \o LeafParameter \o "min AND "
                        \o "TestEntity.id <" \o eq \o " :" \o LeafParameter \o "max"
                 /\ ret.p = <<Binding(LeafParameter \o "min", values.v[1], ret.cnt),
                              Binding(LeafParameter \o "max", values.v[2], ret.cnt)>>
            ELSE /\ ret.err = "between should have two value"
                 /\ ret.p = <<>>

\* the operator keys of the comparison branch
ComparisonKeys == {"<", "<=", ">", ">="}

\* C13: for a leaf object whose keys are among <, <=, >, >=: it is rejected
\* when neither an upper nor a lower bound is defined and when a defined
\* bound is not a string or a number; otherwise the upper bound is the value
\* of < if defined, else of <=, the lower bound is the value of > if defined,
\* else of >=, and each defined bound yields one comparison on the field, the
\* upper one first, AND-ed in one fragment, each with a parameter of its own.
C13_ComparisonBounds ==
  LET upper == IF Prop(LeafGiven, "<") # Undef
                 THEN <<"<", Prop(LeafGiven, "<")>> ELSE <<"<=", Prop(LeafGiven, "<=")>>
      lower == IF Prop(LeafGiven, ">") # Undef
                 THEN <<">", Prop(LeafGiven, ">")>> ELSE <<">=", Prop(LeafGiven, ">=")>>
      bounds == SelectSeq(<<upper, lower>>, LAMBDA b : b[2] # Undef)
      cmp == LeafClauses[1].c.cmp
      part(j) == "TestEntity.id " \o bounds[j][1] \o " :" \o cmp[j].p
  IN (/\ IsLeafCall
      /\ LeafGiven.t = "obj" /\ Len(LeafGiven.v) > 0
      /\ \A i \in 1..Len(LeafGiven.v) : LeafGiven.v[i].k \in ComparisonKeys)
       => IF bounds = <<>> \/ \E j \in 1..Len(bounds) : bounds[j][2].t \notin {"str", "num"}
            THEN /\ ret.err \in {"comparison should have value", "comparison invalid value"}
                 /\ ret.p = <<>>
            ELSE /\ ret.err = ""
                 /\ Len(LeafClauses) = 1
                 /\ Len(cmp) = Len(bounds) /\ Len(ret.p) = Len(bounds)
                 /\ \A j \in 1..Len(bounds) :
                      /\ cmp[j].op = bounds[j][1]
                      /\ cmp[j].f = [tbl |-> "TestEntity", col |-> "id"]
                      /\ ret.p[j].n = cmp[j].p /\ ret.p[j].v = bounds[j][2]
                 /\ \A j, k \in 1..Len(bounds) : j # k => cmp[j].p # cmp[k].p
                 /\ LeafClauses[1].c.text =
                      IF Len(bounds) = 2 THEN part(1) \o " AND " \o part(2) ELSE part(1)

\* a leaf with a strict lower and a strict upper bound was compiled
C13_Witness ==
  /\ IsLeafCall /\ ret.err = ""
  /\ HasOwn(LeafGiven, "<") /\ HasOwn(LeafGiven, ">") /\ Len(LeafGiven.v) = 2
  /\ Len(ret.p) = 2

C15_ExactlyOneOperator ==
  LET keys == IF LeafGiven.t = "obj"
                THEN {LeafGiven.v[i].k : i \in 1..Len(LeafGiven.v)} \cap Operators
                ELSE {}
  IN IsLeafCall =>
       /\ LeafGiven = Undef => ret.err # ""
       /\ (LeafGiven.t = "obj" /\ ret.err = "") =>
            \/ Cardinality(keys) = 1
            \/ \E low \in {">", ">="}, high \in {"<", "<="} : keys = {low, high}

\* two leaf conditions that differ only in the values to compare against: both
\* scalars or null, or objects with the same keys in the same order, equal
\* modifiers, and a value under every operator key of both or of neither
SameLeafShape(a, b) ==
  \/ a.t \in {"num", "str", "null"} /\ b.t \in {"num", "str", "null"}
  \/ /\ a.t = "obj" /\ b.t = "obj" /\ Len(a.v) = Len(b.v)
     /\ \A i \in 1..Len(a.v) :
          /\ a.v[i].k = b.v[i].k
          /\ a.v[i].k \in Modifiers => a.v[i].v = b.v[i].v
          /\ (a.v[i].v = Undef) <=> (b.v[i].v = Undef)

RECURSIVE SameTreeShape(_, _)
\* two where trees that differ only in the values to compare against
SameTreeShape(a, b) ==
  /\ a.t = "obj" /\ b.t = "obj" /\ Len(a.v) = Len(b.v)
  /\ \A i \in 1..Len(a.v) :
       /\ a.v[i].k = b.v[i].k
       /\ IF a.v[i].k \in {"and", "or"}
            THEN /\ IsArray(a.v[i].v) /\ IsArray(b.v[i].v)
                 /\ Len(a.v[i].v.v) = Len(b.v[i].v.v)
                 /\ \A j \in 1..Len(a.v[i].v.v) : SameTreeShape(a.v[i].v.v[j], b.v[i].v.v[j])
            ELSE SameLeafShape(a.v[i].v, b.v[i].v)

\* the where trees given to getWhere
GivenTrees == {F("id", c) : c \in LeafConditions} \cup LeafTrees

----------------------------------------------------------------------------
(* Attributes, group by and relation aliases *)

\* instance.getAttributes(attrs)
GetAttributes(attrs) ==
  \E A \in {getAttributes(options, query, authQuery, queryBuilder.alias, attrs)} :
    /\ queryParamsCount' = queryParamsCount
    /\ ret' = [Outcome("getAttributes", [NoArgs EXCEPT !.attributes = attrs], A.err,
                       queryParamsCount, queryParamsCount, <<>>, -1)
                 EXCEPT !.names = A.list]
    /\ Frame

\* instance.getGroupBy(attrs)
GetGroupBy(attrs) ==
  \E A \in {getGroupBy(options, query, authQuery, queryBuilder.alias, attrs)} :
    /\ queryParamsCount' = queryParamsCount
    /\ ret' = [Outcome("getGroupBy", [NoArgs EXCEPT !.groupBy = attrs], A.err,
                       queryParamsCount, queryParamsCount, <<>>, -1)
                 EXCEPT !.names = A.list]
    /\ Frame

\* field lists given as attributes and as group by
FieldLists ==
  { Undef,
    Arr(<<Str("id")>>),
    Arr(<<Str("param2")>>),
    Arr(<<Str("TestEntity.id"), Str("id")>>),
    Arr(<<Str("id"), Str("param"), Str("TestEntity.id"), Str("id")>>),
    Arr(<<Str("rel.id"), Str("rel.sub.id"), Str("rel.sub.deep.id"), Str("id")>>),
    Arr(<<Str("")>>),
    Arr(<<Str("id"), Num(1)>>),
    Arr(<<Null>>),
    Arr(<<Obj(<<>>), Str("id")>>) }

\* relation lists given to getRelations
RelationLists ==
  { Undef,
    Arr(<<Str("rel")>>),
    Arr(<<Str("rel"), Str("rel.sub"), Str("rel.sub.deep")>>),
    Arr(<<Str("rel.sub"), Str("rel.other"), Str("rel")>>),
    Arr(<<Str("a_b.c"), Str("a.b_c")>>),
    Arr(<<Relation("rel.sub", IdIs1), Relation("rel", Undef)>>),
    Arr(<<Str("a.b.c.d.e.f.g")>>),
    Arr(<<Obj(<<>>)>>),
    Arr(<<Str("rel"), Str("rel")>>),
    Arr(<<Str("rel"), F("name", Str("rel"))>>),
    Arr(<<Relation("rel", IdIs1), Relation("rel", IdIs2)>>),
    Arr(<<Str("a.b")>>),
    Arr(<<Str("rel"), Str("a.b.c")>>),
    Arr(<<Str("a.b.c.d")>>),
    Arr(<<Str("rel.sub"), Str("a.b.c.d.e")>>),
    Arr(<<Str("")>>),
    Arr(<<Num(2)>>),
    Arr(<<Str("rel.sub"), F("name", Null)>>),
    Arr(<<F("name", Str(""))>>) }

\* instances used for attributes, group by and relations: a stored query and
\* a policy with field lists, the disable flags given as options
InitAlias ==
  \E qa \in {Undef, Arr(<<Str("id")>>), Arr(<<Str("TestEntity.id"), Str("name")>>)},
     aa \in {Undef, Arr(<<Str("param")>>), Arr(<<Str("id"), Str("TestEntity.param")>>)},
     uo \in {OptionsObject(<<>>),
             OptionsObject([isDisableAttributes |-> TRUE, isDisableGroupBy |-> TRUE]),
             OptionsObject([maxDeepRelation |-> 2])},
     qr \in {Undef, Arr(<<Str("rel")>>)} :
    InitWith(EmptyBuilder(Alias),
             [EmptyQuery EXCEPT !.attributes = qa, !.groupBy = qa, !.relations = qr],
             [opts |-> OptionsObject(<<>>), attributes |-> aa, groupBy |-> aa,
              where |-> Undef],
             uo)

NextAlias ==
  \/ \E attrs \in FieldLists : GetAttributes(attrs)
  \/ \E attrs \in FieldLists : GetGroupBy(attrs)
  \/ \E relations \in RelationLists : GetRelations(relations)

SpecAlias == InitAlias /\ [][NextAlias]_vars

\* the names of the relations that the last getRelations call resolved, in the
\* order of its result
GivenRelationNames ==
  LET merged == DedupeRelations(ListOf(Nullish(query.relations, Arr(<<>>)))
                                \o ListOf(Nullish(ret.args.relations, Arr(<<>>))))
  IN [i \in 1..Len(merged) |-> RelationFields(merged[i]).name.v]

\* the fields that the last getAttributes or getGroupBy call resolved: the
\* stored query's, the policy's, the argument's
GivenFields ==
  IF ret.op = "getAttributes"
    THEN ListOf(query.attributes) \o ListOf(authQuery.attributes) \o ListOf(ret.args.attributes)
    ELSE ListOf(query.groupBy) \o ListOf(authQuery.groupBy) \o ListOf(ret.args.groupBy)

C18_AliasesDistinct ==
  (ret.op = "getRelations" /\ ret.err = "") =>
    \A i, j \in 1..Len(ret.relations) :
      LET a == Split(GivenRelationNames[i], ".")
          b == Split(GivenRelationNames[j], ".")
      IN (/\ GivenRelationNames[i] # GivenRelationNames[j]
          /\ Len(a) = Len(b) /\ Len(a) > 1
          /\ \A k \in 1..Len(a) : a[k] # "" /\ b[k] # ""
          /\ a[Len(a)] # b[Len(b)])
           => ret.relations[i].alias # ret.relations[j].alias

\* the disable flag of the last getAttributes or getGroupBy call
FieldsDisabled ==
  IF ret.op = "getAttributes" THEN options.isDisableAttributes ELSE options.isDisableGroupBy

\* the sources the specification merges: the stored query's fields unless its
\* list is disabled, the policy's fields, the fields given to the call
MergedFields ==
  IF ~FieldsDisabled THEN GivenFields
  ELSE IF ret.op = "getAttributes"
    THEN ListOf(authQuery.attributes) \o ListOf(ret.args.attributes)
    ELSE ListOf(authQuery.groupBy) \o ListOf(ret.args.groupBy)

\* C19: getAttributes and getGroupBy return the alias-resolved names of their
\* merged sources without duplicates, every name at the position of its first
\* occurrence; the same field given bare and qualified with the root alias,
\* in any order and from any source, yields exactly one entry; an empty entry
\* or an entry that is not a string makes the call throw.
C19_MergedDeduped ==
  LET resolved == [k \in 1..Len(MergedFields) |->
                     FieldText(withFieldAlias(MergedFields[k].v, RootAlias))]
      first(n) == CHOOSE k \in 1..Len(resolved) :
                    resolved[k] = n /\ \A m \in 1..(k - 1) : resolved[m] # n
  IN ret.op \in {"getAttributes", "getGroupBy"} =>
       IF \E k \in 1..Len(MergedFields) : MergedFields[k].t # "str" \/ MergedFields[k].v = ""
         THEN ret.err # ""
         ELSE /\ ret.err = ""
              /\ {ret.names[i] : i \in 1..Len(ret.names)}
                   = {resolved[k] : k \in 1..Len(resolved)}
              /\ \A i, j \in 1..Len(ret.names) :
                   i < j => /\ ret.names[i] # ret.names[j]
                            /\ first(ret.names[i]) < first(ret.names[j])
              /\ (\E k, m \in 1..Len(MergedFields) :
                    /\ MergedFields[k].v = "id"
                    /\ MergedFields[m].v = RootAlias \o ".id")
                   => Cardinality({i \in 1..Len(ret.names) : ret.names[i] = RootAlias \o ".id"}) = 1

\* C20: the policy's attributes are always part of the result of
\* getAttributes: with isDisableAttributes set, the fields of the stored query
\* are dropped and the policy's fields and the fields given to the call are
\* still returned alias-resolved; the same holds for getGroupBy with
\* isDisableGroupBy.
C20_PolicyFieldsKept ==
  (/\ ret.op \in {"getAttributes", "getGroupBy"}
   /\ FieldsDisabled
   /\ \A k \in 1..Len(MergedFields) : MergedFields[k].t = "str" /\ MergedFields[k].v # "")
    => /\ ret.err = ""
       /\ {ret.names[i] : i \in 1..Len(ret.names)}
            = {FieldText(withFieldAlias(MergedFields[k].v, RootAlias)) : k \in 1..Len(MergedFields)}

----------------------------------------------------------------------------
(* Ordering *)

\* instance.getOrderBy(orderBy)
GetOrderBy(orderBy) ==
  \E O \in {getOrderBy(options, query, queryBuilder.alias, orderBy)} :
    /\ queryParamsCount' = queryParamsCount
    /\ ret' = [Outcome("getOrderBy", [NoArgs EXCEPT !.orderBy = orderBy], O.err,
                       queryParamsCount, queryParamsCount, <<>>, -1)
                 EXCEPT !.sorting = IF O.err # "" THEN <<>> ELSE O.list]
    /\ Frame

\* order-by maps of a stored query and of the argument; Sort is {order, nulls}
OrderBys ==
  LET Sort(order, nulls) == Obj(<<Entry("order", Str(order)), Entry("nulls", Str(nulls))>>)
  IN
  { Undef,
    F("id", Str("ASC")),
    F("id", Str("DESC")),
    F("id", Sort("DESC", "last")),
    Obj(<<Entry("id", Sort("ASC", "first")), Entry("param", Str("DESC"))>>),
    Obj(<<Entry("param", Str("ASC")), Entry("id", Str("DESC"))>>),
    Obj(<<Entry("name", Str("ASC")), Entry("TestEntity.id", Sort("DESC", "first")),
          Entry("rel.sub.id", Str("ASC"))>>),
    Obj(<<Entry("id", Str("ASC")), Entry("TestEntity.id", Str("DESC"))>>),
    F("id", Str("up")),
    F("id", Null),
    F("id", Sort("ASC", "middle")),
    F("id", F("order", Null)) }

RECURSIVE WhereText(_)
\* the builder's where expression: the conditions in order, each after the
\* first behind its junction, a bracket group in parentheses
WhereText(w) ==
  IF Len(w) = 0 THEN ""
  ELSE LET c == w[Len(w)]
           shown == IF c.c.k = "brackets" THEN "(" \o WhereText(c.c.w) \o ")" ELSE c.c.text
       IN IF Len(w) = 1 THEN shown
          ELSE WhereText(SubSeq(w, 1, Len(w) - 1))
                 \o (IF c.type = "or" THEN " OR " ELSE " AND ") \o shown

\* query.getQuery() of a builder without joins: the statement with its WHERE,
\* GROUP BY, ORDER BY and LIMIT parts
getQuery(qb) ==
  LET sorted == [i \in 1..Len(qb.orderBys) |->
                   qb.orderBys[i].field \o " " \o qb.orderBys[i].value
                     \o (IF qb.orderBys[i].nulls = "" THEN "" ELSE " " \o qb.orderBys[i].nulls)]
  IN "SELECT * FROM \"" \o qb.alias \o "\""
       \o (IF Len(qb.wheres) = 0 THEN "" ELSE " WHERE " \o WhereText(qb.wheres))
       \o (IF Len(qb.groupBys) = 0 THEN "" ELSE " GROUP BY " \o JoinWith(qb.groupBys, ", "))
       \o (IF Len(sorted) = 0 THEN "" ELSE " ORDER BY " \o JoinWith(sorted, ", "))
       \o (IF qb.take = Undef THEN "" ELSE " LIMIT " \o ToString(qb.take.v))

\* TypeormJsonQuery.qbWhereParse(query): the condition text, "" when the
\* result is the empty array, and the parameters
qbWhereParse(qb) ==
  LET text == getQuery(qb)
      \* the positions where sub occurs in s
      at(s, sub) == {i \in 1..(Len(s) - Len(sub) + 1) : SubSeq(s, i, i + Len(sub) - 1) = sub}
      first(S) == CHOOSE i \in S : \A j \in S : i <= j
      \* s.split('WHERE ')[1]
      afterWhere(s) ==
        LET rest == SubSeq(s, first(at(s, "WHERE ")) + 6, Len(s))
        IN IF at(rest, "WHERE ") = {} THEN rest
           ELSE SubSeq(rest, 1, first(at(rest, "WHERE ")) - 1)
      \* /\s(limit|order|group|having)/i at position i of s
      words == {<<"limit", "LIMIT">>, <<"order", "ORDER">>, <<"group", "GROUP">>,
                <<"having", "HAVING">>}
      matches(s, i) ==
        /\ SubSeq(s, i, i) \in {" ", "\t", "\n"}
        /\ \E kw \in words :
             /\ i + Len(kw[1]) <= Len(s)
             /\ \A j \in 1..Len(kw[1]) :
                  SubSeq(s, i + j, i + j) \in {SubSeq(kw[1], j, j), SubSeq(kw[2], j, j)}
      \* s.split(regexp)[0]
      head(s) ==
        LET found == {i \in 1..Len(s) : matches(s, i)}
        IN IF found = {} THEN s ELSE SubSeq(s, 1, first(found) - 1)
      condition == IF at(text, "WHERE ") = {} THEN "" ELSE head(afterWhere(text))
  IN [p |-> IF condition = "" THEN <<>> ELSE qb.params, condition |-> condition]

\* TypeormJsonQuery.qbWhereParse(qb) of a builder made by the caller
QbWhereParse(qb) ==
  \E P \in {qbWhereParse(qb)} :
    /\ queryParamsCount' = queryParamsCount
    /\ ret' = [Outcome("qbWhereParse", NoArgs, "", queryParamsCount, queryParamsCount, P.p, -1)
                 EXCEPT !.qb = qb, !.condition = P.condition]
    /\ Frame

\* the successive clone() calls followed on one plan
MaxClones == 3

\* plans are asked for while the parameter counter is at most this
MaxPlanCount == 2

\* a faulty variant: the join builder of a clone is the default one
cloneDefault(qb) == [qb EXCEPT !.lateral = FALSE, !.relationsByAlias = <<>>]

\* qb.clone(): the default clone copies the expression map only; for a plan
\* with lateral joins enabled, the clone function installed by
\* enableLateralJoins enables them on the copy with the same relations
clone(qb) ==
  LET newQb == [qb EXCEPT !.lateral = FALSE, !.relationsByAlias = <<>>]
  IN IF qb.lateral
       THEN [newQb EXCEPT !.lateral = TRUE, !.relationsByAlias = qb.relationsByAlias]
       ELSE newQb

\* the join expression of a plan, join by join: a LEFT JOIN LATERAL built from
\* the relation's own query, or the default LEFT JOIN.  Without
\* enableLateralJoins the builder renders its default joins.  relationsByAlias
\* is indexed by alias, so the last relation of an alias is the one found; the
\* WHERE expression shows a column of the alias as "alias"."column"
createJoinExpression(qb) ==
  LET whereExpression == WhereText(qb.wheres)
      at(sub) == {i \in 1..(Len(whereExpression) - Len(sub) + 1) :
                    SubSeq(whereExpression, i, i + Len(sub) - 1) = sub}
      \* detectAliasRegexp.test(whereExpression)
      detected(aliasName) ==
        \/ at("\"" \o aliasName \o "\".") # {}
        \/ \E i \in at(aliasName \o ".") :
             i = 1 \/ SubSeq(whereExpression, i - 1, i - 1) \in {" ", "("}
  IN [i \in 1..Len(qb.joins) |->
        LET found == {k \in 1..Len(qb.relationsByAlias) :
                        qb.relationsByAlias[k].alias = qb.joins[i].alias}
        IN IF qb.lateral /\ found # {}
              /\ Truthy(qb.relationsByAlias[CHOOSE k \in found : \A m \in found : m <= k].isLateral)
              /\ ~detected(qb.joins[i].alias)
             THEN [query |-> qb.relationsByAlias[CHOOSE k \in found : \A m \in found : m <= k].query,
                   alias |-> qb.joins[i].alias, lateral |-> TRUE]
             ELSE [query |-> Undef, alias |-> qb.joins[i].alias, lateral |-> FALSE]]

\* plan.clone() of the plan that the last toQuery or clone returned
Clone ==
  /\ ret.op \in {"toQuery", "clone"} /\ ret.err = ""
  /\ ret.num < MaxClones
  /\ ret' = [ret EXCEPT !.op = "clone", !.qb = clone(ret.qb), !.num = ret.num + 1]
  /\ queryParamsCount' = queryParamsCount
  /\ Frame

\* instances whose parts and plans are inspected
InitPlan ==
  \E qo \in OrderBys,
     uo \in {OptionsObject(<<>>), OptionsObject([isDisableOrderBy |-> TRUE]),
             OptionsObject([isLateralJoins |-> FALSE])} :
    InitWith(EmptyBuilder(Alias),
             [EmptyQuery EXCEPT !.orderBy = qo],
             [opts |-> OptionsObject(<<>>), attributes |-> Undef, groupBy |-> Undef,
              where |-> Undef],
             uo)

NextPlan ==
  \/ \E orderBy \in OrderBys : GetOrderBy(orderBy)
  \/ \E first \in {"id = :id", "ordering = :id"},
        second \in {"", "param > :param", "group > :param", "param > :param OR LIMITS < 3",
                    "param IN (SELECT id FROM t WHERE y = 1)"},
        tail \in {{}, {"order"}, {"group", "limit"}} :
       QbWhereParse(
         [EmptyBuilder(Alias) EXCEPT
            !.wheres = IF second = "" THEN <<Clause("and", Cond(first, <<>>))>>
                       ELSE <<Clause("and", Cond(first, <<>>)), Clause("and", Cond(second, <<>>))>>,
            !.params = IF second \in {"", "param IN (SELECT id FROM t WHERE y = 1)"}
                         THEN <<Binding("id", Num(1), 0)>>
                         ELSE <<Binding("id", Num(1), 0), Binding("param", Num(2), 0)>>,
            !.groupBys = IF "group" \in tail THEN <<"param">> ELSE <<>>,
            !.orderBys = IF "order" \in tail
                           THEN <<[field |-> "id", value |-> "ASC", nulls |-> ""]>> ELSE <<>>,
            !.take = IF "limit" \in tail THEN Num(10) ELSE Undef])
  \/ \E relations \in
          { Arr(<<Str("rel")>>),
            Arr(<<Obj(<<Entry("name", Str("rel")), Entry("isLateral", Bool(TRUE)),
                        Entry("orderBy", F("id", Str("DESC")))>>)>>),
            Arr(<<Obj(<<Entry("name", Str("rel")), Entry("isLateral", Bool(TRUE)),
                        Entry("pageSize", Num(5))>>),
                  Obj(<<Entry("name", Str("rel.sub")), Entry("isLateral", Bool(FALSE))>>),
                  Obj(<<Entry("name", Str("other")), Entry("isLateral", Bool(TRUE))>>)>>),
            Arr(<<Obj(<<Entry("name", Str("rel")), Entry("pageSize", Num(5))>>),
                  Obj(<<Entry("name", Str("rel")), Entry("isLateral", Bool(TRUE))>>)>>) },
        where \in {Undef, F("rel.id", Num(1)), F("other.id", Num(1)),
                   F("id", Op("in", Arr(<<Num(1)>>)))} :
       /\ queryParamsCount <= MaxPlanCount
       /\ ToQuery([NoArgs EXCEPT !.relations = relations, !.where = where])
  \/ Clone
  \/ \E tail \in {{}, {"order"}, {"group", "limit"}} :
       QbWhereParse(
         [EmptyBuilder(Alias) EXCEPT
            !.groupBys = IF "group" \in tail THEN <<"param">> ELSE <<>>,
            !.orderBys = IF "order" \in tail
                           THEN <<[field |-> "id", value |-> "ASC", nulls |-> ""]>> ELSE <<>>,
            !.take = IF "limit" \in tail THEN Num(10) ELSE Undef])

SpecPlan == InitPlan /\ [][NextPlan]_vars

\* C21: getOrderBy returns exactly one entry per resolved field: a field that
\* is ordered in the stored query and in the argument gets the direction and
\* the nulls placement of the argument (of the last occurrence, the stored
\* query's entries coming first), the entry stays at the position where the
\* field first appeared, and a field of one source only is kept as it is.
C21_OneEntryPerField ==
  LET given == EntriesOf(query.orderBy) \o EntriesOf(ret.args.orderBy)
      name(e) == FieldText(withFieldAlias(e.k, RootAlias))
      dir(e) == IF e.v.t = "obj" THEN Prop(e.v, "order").v ELSE e.v.v
      placement(e) == IF e.v.t # "obj" \/ Prop(e.v, "nulls") = Undef THEN ""
                      ELSE IF Prop(e.v, "nulls").v = "first" THEN "NULLS FIRST" ELSE "NULLS LAST"
      first(n) == CHOOSE k \in 1..Len(given) :
                    name(given[k]) = n /\ \A m \in 1..(k - 1) : name(given[m]) # n
      last(n) == CHOOSE k \in 1..Len(given) :
                   name(given[k]) = n /\ \A m \in (k + 1)..Len(given) : name(given[m]) # n
  IN (ret.op = "getOrderBy" /\ ret.err = "" /\ ~options.isDisableOrderBy) =>
       /\ {ret.sorting[i].field : i \in 1..Len(ret.sorting)}
            = {name(given[k]) : k \in 1..Len(given)}
       /\ \A i, j \in 1..Len(ret.sorting) :
            i < j => /\ ret.sorting[i].field # ret.sorting[j].field
                     /\ first(ret.sorting[i].field) < first(ret.sorting[j].field)
       /\ \A i \in 1..Len(ret.sorting) :
            /\ ret.sorting[i].value = dir(given[last(ret.sorting[i].field)])
            /\ ret.sorting[i].nulls = placement(given[last(ret.sorting[i].field)])

\* the argument reversed the stored direction of id and ordered a second
\* field: id stays first and is descending
C21_Witness ==
  /\ ret.op = "getOrderBy" /\ ret.err = ""
  /\ query.orderBy = F("id", Obj(<<Entry("order", Str("DESC")), Entry("nulls", Str("last"))>>))
  /\ ret.args.orderBy = Obj(<<Entry("param", Str("ASC")), Entry("id", Str("DESC"))>>)
  /\ Len(ret.sorting) = 2
  /\ ret.sorting[1].field = "TestEntity.id" /\ ret.sorting[1].nulls = ""

\* C22: getRelations returns at most one join descriptor per alias: entries
\* that resolve to the same alias are deduplicated whatever their form and
\* source (a string and an object {name}, two separate objects, the stored
\* query and the extra relations).
C22_OneDescriptorPerAlias ==
  (ret.op = "getRelations" /\ ret.err = "") =>
    \A i, j \in 1..Len(ret.relations) :
      i < j => ret.relations[i].alias # ret.relations[j].alias

\* C23: getRelations rejects a relation whose dotted name has more than
\* maxDeepRelation segments with "reached maximum depth" and one whose name is
\* missing, empty or not a string with "incorrect name", returning no
\* descriptor list; names of at most maxDeepRelation segments are accepted.
C23_RelationNameChecked ==
  LET merged == DedupeRelations(ListOf(Nullish(query.relations, Arr(<<>>)))
                                \o ListOf(Nullish(ret.args.relations, Arr(<<>>))))
      name(i) == IF TypeofObject(merged[i]) /\ merged[i].t # "null"
                   THEN Prop(merged[i], "name") ELSE merged[i]
      noName(i) == name(i).t # "str" \/ name(i).v = ""
      tooDeep(i) == ~noName(i) /\ Len(Split(name(i).v, ".")) > options.maxDeepRelation
      bad == {i \in 1..Len(merged) : noName(i) \/ tooDeep(i)}
      firstBad == CHOOSE i \in bad : \A j \in bad : i <= j
  IN (ret.op = "getRelations" /\ ~options.isDisableRelations) =>
       IF bad = {}
         THEN /\ ret.err = ""
              /\ Len(ret.relations) = Len(merged)
         ELSE /\ ret.relations = <<>>
              /\ ret.err = IF noName(firstBad) THEN "some relation has incorrect name"
                           ELSE "relation has reached maximum depth"

\* with maxDeepRelation 2, the name rel was passed and the name a.b.c of three
\* segments was rejected
C23_Witness ==
  /\ ret.op = "getRelations" /\ options.maxDeepRelation = 2
  /\ ret.args.relations = Arr(<<Str("rel"), Str("a.b.c")>>)
  /\ ret.err = "relation has reached maximum depth" /\ ret.relations = <<>>

\* C24: qbWhereParse returns the complete WHERE clause text of the builder,
\* ending only at the next LIMIT, ORDER BY, GROUP BY or HAVING clause, paired
\* with the builder's parameters, also when a condition holds a word spelled
\* like a keyword; the result is empty when the builder has no WHERE clause.
C24_WholeWhereClause ==
  ret.op = "qbWhereParse" =>
    IF Len(ret.qb.wheres) = 0
      THEN ret.condition = "" /\ ret.p = <<>>
      ELSE ret.condition = WhereText(ret.qb.wheres) /\ ret.p = ret.qb.params

\* C25: the join of a relation is rendered as a lateral join only when
\* isLateralJoins is on, the relation is marked isLateral and the alias of the
\* relation is not referred to by the outer WHERE clause of the plan; in every
\* other case it stays a left join.
C25_LateralOnlyWhenAllowed ==
  LET given == DedupeRelations(ListOf(Nullish(query.relations, Arr(<<>>)))
                               \o ListOf(Nullish(ret.args.relations, Arr(<<>>))))
      keys == IF ret.args.where = Undef THEN {}
              ELSE {ret.args.where.v[k].k : k \in 1..Len(ret.args.where.v)}
      referred(alias) == \E key \in keys : withFieldAlias(key, RootAlias).tbl = alias
  IN (ret.op \in {"toQuery", "clone"} /\ ret.err = "") =>
       \A i \in 1..Len(ret.qb.joins) :
         createJoinExpression(ret.qb)[i].lateral =>
           /\ options.isLateralJoins
           /\ RelationFields(given[i]).isLateral = Bool(TRUE)
           /\ ~referred(ret.qb.joins[i].alias)

\* C29: a clone of a plan renders the joins that the plan renders: the same
\* relations as lateral joins built from the same relation queries, after any
\* number of successive clone() calls.
C29_CloneKeepsLateralJoins ==
  [][(ret'.op = "clone" /\ ret'.num > ret.num)
       => createJoinExpression(ret'.qb) = createJoinExpression(ret.qb)]_vars

\* the third clone in a row of a plan whose relation rel is joined laterally
C29_Witness ==
  /\ ret.op = "clone" /\ ret.num = 3
  /\ \E i \in 1..Len(ret.qb.joins) :
       /\ createJoinExpression(ret.qb)[i].lateral
       /\ createJoinExpression(ret.qb)[i].alias = "rel"
       /\ createJoinExpression(ret.qb)[i].query.orderBy = F("id", Str("DESC"))

C27_NothingAccumulates ==
  [][(ret'.op = "toQuery" /\ ret'.err = "")
       => /\ queryBuilder' = queryBuilder
          /\ ret'.qb.params = queryBuilder.params \o ret'.p
          /\ \A i \in 1..Len(ret'.p) :
               ret'.p[i].leaf > queryParamsCount /\ ret'.p[i].leaf <= queryParamsCount'
          /\ Len(ret'.qb.wheres)
               = Len(queryBuilder.wheres)
                   + Len(SelectSeq(<<query.where, authQuery.where, ret'.args.where>>, Truthy))
          /\ Len(ret'.qb.joins)
               = Len(queryBuilder.joins)
                   + Len(DedupeRelations(ListOf(Nullish(query.relations, Arr(<<>>)))
                                         \o ListOf(Nullish(ret'.args.relations, Arr(<<>>)))))
          /\ Len(ret'.qb.orderBys) <= 1 /\ Len(ret'.qb.groupBys) <= 1]_vars

\* a later toQuery call succeeded on an instance whose counter had moved
C27_Witness ==
  /\ ret.op = "toQuery" /\ ret.err = ""
  /\ ret.cnt0 > 2 /\ ret.cnt > ret.cnt0
  /\ Len(ret.qb.params) = Len(ret.p)

\* C28: with pagination enabled, a requested page size of exactly 0, given as
\* the pageSize argument of toQuery or, without an argument, as the pageSize
\* of the stored query, gives the plan the limit maxPageSize (0, unlimited,
\* only when maxPageSize is 0).
C28_ZeroPageSizeIsMax ==
  (/\ ret.op = "toQuery" /\ ret.err = "" /\ PaginationOn
   /\ \/ ret.args.pageSize = Num(0)
      \/ ret.args.pageSize = Undef /\ query.pageSize = Num(0))
    => ret.qb.take = Num(options.maxPageSize)

\* C30: within one toQuery call the parameter numbers are given in a fixed
\* order: to the filters of the relations in relation order, then to the where
\* of the stored query, then to the where of the policy, then to the where
\* given to the call, each tree depth-first in key order.  The leaf that is
\* number j in that order binds its field under the number counter + j.
C30_ParameterOrder ==
  LET RECURSIVE Leaves(_, _)
      \* the fields of the leaves of a where tree, depth-first in key order
      Leaves(es, alias) ==
        IF Len(es) = 0 THEN <<>>
        ELSE (IF es[1].k \in JQJunction
                THEN (IF es[1].v.t = "arr" /\ Len(es[1].v.v) > 0
                        THEN Leaves(es[1].v.v[1].v, alias)
                               \o Leaves(<<Entry(es[1].k, Arr(Tail(es[1].v.v)))>>, alias)
                        ELSE <<>>)
                ELSE (IF es[1].v.t = "undef" THEN <<>>
                      ELSE <<FieldText(withFieldAlias(es[1].k, alias))>>))
             \o Leaves(Tail(es), alias)
      given == DedupeRelations(ListOf(Nullish(query.relations, Arr(<<>>)))
                               \o ListOf(Nullish(ret.args.relations, Arr(<<>>))))
      filtered == SelectSeq(given, LAMBDA r : r.t = "obj" /\ Truthy(Prop(r, "where")))
      RECURSIVE OfRelations(_)
      OfRelations(i) ==
        IF i > Len(filtered) THEN <<>>
        ELSE Leaves(Prop(filtered[i], "where").v,
                    JoinWith(Split(Prop(filtered[i], "name").v, "."), "_"))
               \o OfRelations(i + 1)
      tree(x) == IF Truthy(x) THEN Leaves(x.v, RootAlias) ELSE <<>>
      expected == OfRelations(1) \o tree(query.where) \o tree(authQuery.where)
                    \o tree(ret.args.where)
  IN (ret.op = "toQuery" /\ ret.err = "") =>
       /\ ret.cnt = ret.cnt0 + Len(expected)
       /\ \A i \in 1..Len(ret.p) :
            /\ ret.p[i].leaf - ret.cnt0 \in 1..Len(expected)
            /\ \A j \in 1..Len(ret.p) : i < j => ret.p[i].leaf <= ret.p[j].leaf
            /\ \E name \in {expected[ret.p[i].leaf - ret.cnt0] \o "_" \o ToString(ret.p[i].leaf)} :
                 /\ Len(ret.p[i].n) >= Len(name)
                 /\ SubSeq(ret.p[i].n, 1, Len(name)) = name

\* the first call on an instance with a stored where and a policy where, given
\* a relation with a filter: the relation's leaf is number 1, the stored
\* query's leaves are 2 and 3, the policy's leaf is 4
C30_Witness ==
  /\ ret.op = "toQuery" /\ ret.err = "" /\ ret.cnt0 = 0
  /\ ret.args.relations = Arr(<<Relation("rel", IdIs1)>>)
  /\ query.where = Or(<<IdIs1, ParamIs2>>) /\ authQuery.where = ParamIs2
  /\ [i \in 1..Len(ret.p) |-> ret.p[i].n]
       = <<"rel.id_1", "TestEntity.id_2", "TestEntity.param_3", "TestEntity.param_4">>

====
